---- MODULE Spec2Model ----
(***************************************************************************)
(* A model of bitcoinfees/feemodel: the stranding-feerate routine of       *)
(* nonparam.py, the mempool simulator exercised by tests/test_simul.py,    *)
(* the mempool tracker of txmempool.py and its sqlite history store.       *)
(* Each part has its own specification over its own variables; the         *)
(* variables of the other parts stay at their idle values.                 *)
(***************************************************************************)
EXTENDS Integers, Sequences, FiniteSets, TLC

VARIABLES
    \* nonparam.py: one BlockStat and its fee estimate
    entriesIn,      \* block.entries.itervalues(): the observations, in dict order
    feeStats,       \* BlockStat.feeStats
    minFeeRate,     \* FeeEstimate.minFeeRate
    bootSample,     \* a BlockStat.bootstrapSample() of the estimate
    bootMinFeeRate, \* calcMinFeeRateSingle of that sample
    sfrPc,          \* "new" -> "ready" -> "estimated"
    \* the simulator (Simul, SimMempool) as tests/test_simul.py drives it
    simEntries,     \* SimMempool.get_entries(): txid -> SimEntry
    simPrev,        \* the entries the last block was selected from
    simBlock,       \* the last SimBlock yielded
    simHeight,      \* blocks yielded so far
    simMode,        \* init_entries and pools of the run: "S3", "S4", "TC" or "gen"
    simDeps,        \* history: txid -> the depends the entry came with
    simDone,        \* history: the txids included by the blocks before the last
    simTxRate,      \* SimTxSource.txrate: 0 or 1 (positive)
    simPc,          \* "init" -> "running" | "error"
    \* the history store (sqlite file) of txmempool.py
    dbBlocks,       \* table blocks: rows <<height, size, time>>
    dbTxs,          \* table txs: rows <<blockheight, txid>> \o attribute tuple
    \* MemBlock.write / MemBlock.read called on the store
    stEntry,        \* the MemEntry the written MemBlocks hold (one per txid)
    stTxids,        \* the txids of the written MemBlocks
    stKeep,         \* blocks_to_keep of the write() calls
    stWritten,      \* the MemBlock of the last write() call
    stOutcome,      \* how the last write() ended
    stRead,         \* what the last read() returned
    stReadOf,       \* the blockheight the last read() was called with
    \* the Bitcoin Core node that proxy polls
    nodeHeight,     \* getblockcount()
    nodeBlocks,     \* the txids of the block at each height 1..nodeHeight
    nodeMempool,    \* tx -> [time, height] of the transactions in the mempool
    nodeSeen,       \* the transactions the node has ever accepted
    nodeClock,      \* time()
    nodeRpc,        \* whether the responses of the node may carry errors
    \* TxMempool (the tracker thread and its block worker)
    tkPc,           \* "stopped" -> "running"
    tkKeep,         \* self.blocks_to_keep
    tkState,        \* self.state
    tkQueue,        \* the calls put to self.blockworker and not yet run
    tkJob,          \* the arguments of the last process_blocks call
    tkMemblocks,    \* what the last process_blocks call returned
    tkPoll,         \* the two responses of the last poll_mempool batch
    tkArgs,         \* the two objects of the last process_blocks call, as it left them
    tkWrites,       \* how the write of each MemBlock of the last batch ended
    \* simul: SimPools.get_capacity, TxSource.get_byterates, Capacity, Simul
    rtPools,        \* SimPools.pools: name -> SimPool
    rtCaps,         \* what get_capacity() returned or raised
    rtSample,       \* TxSource.txsample
    rtTxRate,       \* TxSource.txrate, in tenths of a transaction per second
    rtFeerates,     \* the feerates get_byterates is called with
    rtByterates,    \* what get_byterates(feerates) returned
    rtCap,          \* the Capacity of a Simul
    rtThresh,       \* rate_ratio_thresh, in tenths
    rtSimul,        \* the Simul built on that Capacity
    rtWaitFn,       \* a WaitFn (simul/stats.py)
    rtWaitCall,     \* the last evaluation of that WaitFn and what it returned
    rtFeeclasses,   \* get_feeclasses: the local feeclasses
    rtFcPc,         \* get_feeclasses: "new" -> "loop" -> "returned" | "TypeError"
    \* SteadyStateOnline (app/steadystate.py): the worker thread
    ssMiniters,     \* self.miniters
    ssMaxiters,     \* self.maxiters
    ssMaxtime,      \* self.maxtime
    ssPc,           \* where the thread is in run / update / simulate
    ssStop,         \* the stop flag of the thread
    ssHeight,       \* simulate: block.height of the block sim.run() yields next
    ssRealtime,     \* simulate: realtime of the last block yielded
    ssIters,        \* simulate: the blocks given to qstats.next_block
    ssWork,         \* update: the private stats (a deepcopy) being filled in
    ssStats,        \* self.stats: the published steady-state stats
    ssNextUpdate,   \* self.next_update, as the timestamp it was computed from
    ssIo,           \* update: the node fetches and history reads made so far
    \* PoolsEstimatorOnline (app/pools.py): the worker thread, and its clock
    poPc,           \* where the thread is in run / update / pe.start
    poStop,         \* the stop flag of the thread
    poIdx,          \* id_blocks, estimate_params: the height the loop is at
    poIo,           \* update: the node fetches and history reads made so far
    poWork,         \* update: the private pe (a deepcopy) being filled in
    poPe,           \* self.pe: the published pools estimate
    poNextIn,       \* self.next_update - time(), 0 when it is due
    poSince,        \* time() - the start of the last update(), up to UpdatePeriod
    poFill,         \* whether _calc_windowfill() >= windowfillthresh right now
    \* SimOnline (app/simonline.py): the prediction and the threads around it
    prNode,         \* the node's view of each txid: unseen, mempool, confirmed, dropped
    prHeight,       \* the node's block count
    prState,        \* self.state: height and entries of the last poll
    prQueue,        \* the jobs put to self.blockworker, oldest first
    prThreads,      \* the update_predicts threads started and not yet run
    prLock,         \* who holds self.predict_lock
    prJob,          \* what the holder of the lock still has to do
    prPredicts,     \* self.prediction.predicts: the txids with a prediction
    prScores,       \* how often each txid has been scored
    prLife,         \* each txid in the state machine of the prediction tracker
    prBefore,       \* the prediction as it was when the lock was taken
    prRead,         \* what get_predictstats returned last
    \* PoolEstimate.estimate_params (estimate/pools.py)
    epBlocks,       \* MemBlock.read(height) for the blockheights, in loop order
    epPc,           \* where estimate_params is
    epIdx,          \* the position of the loop at work
    epMaxblocksize, \* self.maxblocksize
    epDeferred,     \* deferredblocks
    epFeelimited,   \* self.feelimitedblocks
    epSizelimited,  \* self.sizelimitedblocks
    epTxs,          \* txs, as the blocks whose transactions were added
    epStats,        \* self.stats
    epMinfeerate,   \* self.minfeerate
    epBlockSfr,     \* a MemBlock.calc_stranding_feerate() call and how it ended
    \* PoolsEstimator.start (estimate/pools.py): id_blocks and estimate_pools
    ibAddrOrder,    \* pools_pa.items(): the payout addresses in dict order
    ibTagOrder,     \* pools_ct.items(): the coinbase tags in dict order
    ibBlockmap,     \* self.blockmap: height -> pool name
    ibPools,        \* self.pools: pool name -> proportion, as count over total
    ibPc,           \* where start is
    ibRange,        \* the blockrangetuple of the call
    ibHeight,       \* id_blocks: the height the loop is at
    ibBefore,       \* history of an id_blocks call: self.blockmap when it began
    ibFetched,      \* history of an id_blocks call: the heights it fetched
    ibCoinbase,     \* id_blocks: what the last get_coinbase_info returned
    ibError,        \* what start raised, if it did
    \* a transaction source and the emitter made of it (simul/txsources.py)
    emSample,       \* self.txsample
    emTxRate,       \* self.txrate, in tenths of a transaction per second
    emThresh,       \* the feeratethresh get_emitter was called with
    emPc,           \* "new" -> "emitter" | "ValueError" | "IndexError"
    emDrawn,        \* what generate_txs returned in the last call of the emitter
    emMempool,      \* the transactions the emitter has inserted since mempool.reset()
    emCalls,        \* the calls of the emitter so far
    emK             \* <<k>>, k what poisson_sample returned to the last call

sfrVars == <<entriesIn, feeStats, minFeeRate, bootSample, bootMinFeeRate, sfrPc>>
simVars == <<simEntries, simPrev, simBlock, simHeight, simMode, simDeps, simDone,
            simTxRate, simPc>>

dbVars == <<dbBlocks, dbTxs>>
stVars == <<stEntry, stTxids, stKeep, stWritten, stOutcome, stRead, stReadOf>>

nodeVars == <<nodeHeight, nodeBlocks, nodeMempool, nodeSeen, nodeClock, nodeRpc>>
tkVars == <<tkPc, tkKeep, tkState, tkQueue, tkJob, tkMemblocks, tkPoll, tkArgs, tkWrites>>

rtVars == <<rtPools, rtCaps, rtSample, rtTxRate, rtFeerates, rtByterates, rtCap,
           rtThresh, rtSimul, rtWaitFn, rtWaitCall, rtFeeclasses, rtFcPc>>

ssVars == <<ssMiniters, ssMaxiters, ssMaxtime, ssPc, ssStop, ssHeight, ssRealtime,
           ssIters, ssWork, ssStats, ssNextUpdate, ssIo>>
poVars == <<poPc, poStop, poIdx, poIo, poWork, poPe, poNextIn, poSince, poFill>>

prVars == <<prNode, prHeight, prState, prQueue, prThreads, prLock, prJob, prPredicts,
           prScores, prLife, prBefore, prRead>>
epVars == <<epBlocks, epPc, epIdx, epMaxblocksize, epDeferred, epFeelimited,
           epSizelimited, epTxs, epStats, epMinfeerate, epBlockSfr>>
ibVars == <<ibAddrOrder, ibTagOrder, ibBlockmap, ibPools, ibPc, ibRange, ibHeight,
           ibBefore, ibFetched, ibCoinbase, ibError>>
emVars == <<emSample, emTxRate, emThresh, emPc, emDrawn, emMempool, emCalls, emK>>

vars == <<sfrVars, simVars, dbVars, stVars, nodeVars, tkVars, rtVars, ssVars, poVars,
          prVars, epVars, ibVars, emVars>>

\* Python's None where a number is expected: below every feerate
None == 0 - 1

(***************************************************************************)
(* Generic helpers                                                         *)
(***************************************************************************)
SetMax(S) == CHOOSE x \in S : \A y \in S : y <= x
SetMin(S) == CHOOSE x \in S : \A y \in S : x <= y

RECURSIVE SeqsUpTo(_, _)
SeqsUpTo(S, n) ==
    IF n = 0 THEN {<<>>}
    ELSE LET shorter == SeqsUpTo(S, n - 1)
         IN shorter \cup {Append(s, x) : s \in {t \in shorter : Len(t) = n - 1}, x \in S}

(***************************************************************************)
(* nonparam.py: BlockStat                                                  *)
(***************************************************************************)
MaxFeeRate == 2     \* feerates of the observations are 0..MaxFeeRate
MaxObs == 3         \* at most this many entries in a block

\* float("inf"): above every feerate an observation can carry, those of the
\* scenario S6Entries included
Inf == MaxFeeRate + 1000 * 1000

\* the entries of a block: any feerate in or out of the block, and the
\* fee-less transaction a miner took for its priority
FeeStat ==
    [feeRate : 1..MaxFeeRate, inBlock : BOOLEAN] \cup {[feeRate |-> 0, inBlock |-> TRUE]}

\* list.sort(key=lambda x: x.feeRate, reverse=True): stable, descending
RECURSIVE sortByFeeRate(_)
sortByFeeRate(s) ==
    IF s = <<>> THEN <<>>
    ELSE LET rest == sortByFeeRate(SubSeq(s, 1, Len(s) - 1))
             x == s[Len(s)]
             k == Cardinality({i \in 1..Len(rest) : rest[i].feeRate >= x.feeRate})
         IN SubSeq(rest, 1, k) \o <<x>> \o SubSeq(rest, k + 1, Len(rest))

\* the loop of calcMinFeeRateSingle: kvals and feeRateCurr after feeStats[i..]
RECURSIVE kvalsLoop(_, _, _, _)
kvalsLoop(fs, i, kvals, feeRateCurr) ==
    IF i > Len(fs) THEN kvals
    ELSE LET feeStat == fs[i]
             lower == feeStat.feeRate < feeRateCurr
             kv1 == IF lower
                    THEN (feeStat.feeRate :> kvals[feeRateCurr]) @@ kvals
                    ELSE kvals
             curr == IF lower THEN feeStat.feeRate ELSE feeRateCurr
             kv2 == [kv1 EXCEPT ![curr] = @ + (IF feeStat.inBlock THEN 1 ELSE -1)]
         IN kvalsLoop(fs, i + 1, kv2, curr)

\* a slip: max(argmaxk) returned instead of min(argmaxk)
calcMinFeeRateSingleMaxArg(fs) ==
    LET kvals == kvalsLoop(fs, 1, (Inf :> 0), Inf)
        maxk == SetMax({kvals[f] : f \in DOMAIN kvals})
        argmaxk == {f \in DOMAIN kvals : kvals[f] = maxk}
    IN SetMax(argmaxk)

calcMinFeeRateSingle(fs) ==
    LET kvals == kvalsLoop(fs, 1, (Inf :> 0), Inf)
        maxk == SetMax({kvals[f] : f \in DOMAIN kvals})
        argmaxk == {f \in DOMAIN kvals : kvals[f] = maxk}
    IN SetMin(argmaxk)

SfrIdle ==
    /\ entriesIn = <<>>
    /\ feeStats = <<>>
    /\ minFeeRate = None
    /\ bootSample = <<>>
    /\ bootMinFeeRate = None
    /\ sfrPc = "idle"

SfrInit ==
    /\ entriesIn \in SeqsUpTo(FeeStat, MaxObs)
    /\ feeStats = <<>>
    /\ minFeeRate = None
    /\ bootSample = <<>>
    /\ bootMinFeeRate = None
    /\ sfrPc = "new"

\* BlockStat.__init__: keep the entries with a feerate, sort them
BlockStatInit ==
    /\ sfrPc = "new"
    /\ feeStats' = sortByFeeRate(SelectSeq(entriesIn, LAMBDA e : e.feeRate # 0))
    /\ sfrPc' = "ready"
    /\ UNCHANGED <<entriesIn, minFeeRate, bootSample, bootMinFeeRate>>
    /\ UNCHANGED <<simVars, dbVars, stVars, nodeVars, tkVars, rtVars, ssVars, poVars, prVars, epVars, ibVars, emVars>>

\* BlockStat.bootstrapSample: a resample with replacement, sorted
bootstrapSample(fs, pick) == sortByFeeRate([i \in 1..Len(fs) |-> fs[pick[i]]])

\* BlockStat.estimateFee: minFeeRate and, when it is finite, the bootstrap, of
\* which bootSample and bootMinFeeRate keep one round (any of them)
estimateFee ==
    /\ sfrPc = "ready"
    /\ IF feeStats = <<>>
       THEN minFeeRate' = None /\ bootSample' = <<>> /\ bootMinFeeRate' = None
       ELSE /\ minFeeRate' = calcMinFeeRateSingle(feeStats)
            /\ IF minFeeRate' # Inf
               THEN \E pick \in [1..Len(feeStats) -> 1..Len(feeStats)] :
                       /\ bootSample' = bootstrapSample(feeStats, pick)
                       /\ bootMinFeeRate' = calcMinFeeRateSingle(bootSample')
               ELSE bootSample' = <<>> /\ bootMinFeeRate' = None
    /\ sfrPc' = "estimated"
    /\ UNCHANGED <<entriesIn, feeStats>>
    /\ UNCHANGED <<simVars, dbVars, stVars, nodeVars, tkVars, rtVars, ssVars, poVars, prVars, epVars, ibVars, emVars>>

SfrNext == BlockStatInit \/ estimateFee

\* scenario S6 of the specification: in-block feerates 10000, 9000, 8000 and
\* out-of-block feerates 7000, 6000, 5000, 4000
S6Entries ==
    <<[feeRate |-> 10000, inBlock |-> TRUE], [feeRate |-> 9000, inBlock |-> TRUE],
      [feeRate |-> 8000, inBlock |-> TRUE], [feeRate |-> 7000, inBlock |-> FALSE],
      [feeRate |-> 6000, inBlock |-> FALSE], [feeRate |-> 5000, inBlock |-> FALSE],
      [feeRate |-> 4000, inBlock |-> FALSE]>>

\* S6 with the observation at 8000 out of the block
S6Flipped == [S6Entries EXCEPT ![3].inBlock = FALSE]

\* S6 with the observation at 8000 out of the block and the out-of-block
\* observation j in it
S6Exchanged(j) == [S6Entries EXCEPT ![3].inBlock = FALSE, ![j].inBlock = TRUE]

\* S6 with the out-of-block observation at 7000 moved to 8000, beside the
\* in-block one
S6Tied == [S6Entries EXCEPT ![4].feeRate = 8000]

S6Scenarios == {S6Entries, S6Flipped, S6Tied} \cup {S6Exchanged(j) : j \in 4..7}

\* a BlockStat of generated entries or of one of the S6 blocks
SingleInit ==
    /\ entriesIn \in SeqsUpTo(FeeStat, MaxObs) \cup S6Scenarios
    /\ feeStats = <<>>
    /\ minFeeRate = None
    /\ bootSample = <<>>
    /\ bootMinFeeRate = None
    /\ sfrPc = "new"

\* BlockStat.calcMinFeeRateSingle(feeStats) called on the sorted observations
CalcSingle ==
    /\ sfrPc = "ready"
    /\ feeStats /= <<>>
    /\ minFeeRate' = calcMinFeeRateSingle(feeStats)
    /\ sfrPc' = "single"
    /\ UNCHANGED <<entriesIn, feeStats, bootSample, bootMinFeeRate>>
    /\ UNCHANGED <<simVars, dbVars, stVars, nodeVars, tkVars, rtVars, ssVars, poVars, prVars, epVars, ibVars, emVars>>

SingleNext == BlockStatInit \/ CalcSingle


(***************************************************************************)
(* The simulator: Simul.run over a SimMempool, as tests/test_simul.py      *)
(* drives it (feemodel/simul/simul.py and pools.py are not in the source   *)
(* tree; the selection loop follows section 4.4 of the specification and   *)
(* the values the tests assert).                                           *)
(***************************************************************************)
MaxTx == 3          \* txids of a generated run are 0..MaxTx-1
MaxBlocks == 2      \* blocks simulated in a run
TestDBlocks == 4    \* the blocks test_D looks at before it breaks

NumChildren == 999  \* the children "1".."999" of entry "0" in the custom mempools

\* float("inf") among the simulator's feerates
SimInf == 1000 * 1000 * 1000

\* ref_pools
ref_pools ==
    [pool0 |-> [hashrate |-> 2, maxblocksize |-> 500000, minfeerate |-> 20000],
     pool1 |-> [hashrate |-> 3, maxblocksize |-> 750000, minfeerate |-> 10000],
     pool2 |-> [hashrate |-> 5, maxblocksize |-> 1000000, minfeerate |-> 1000]]

\* ref_txsample
ref_txsample ==
    {[feerate |-> 11000, size |-> 640],
     [feerate |-> 40000, size |-> 250],
     [feerate |-> 2000, size |-> 500]}

\* the pools taken in the order of their names
PseudoPoolsByName == <<"pool0", "pool1", "pool2">>

\* PseudoPools.get_blockgen: the pools by hashrate, highest first, in turn
PseudoPoolOrder == <<"pool2", "pool1", "pool0">>

SimEntry(feerate, size, depends) ==
    [feerate |-> feerate, size |-> size, depends |-> depends]

\* init_entries of CustomMempoolTests.test_A, test_B, test_C: entry "0" and
\* its children
CustomEntries(parent) ==
    [i \in 0..NumChildren |->
        IF i = 0 THEN parent ELSE SimEntry(100000, 250, {0})]

InitEntriesA == CustomEntries(SimEntry(100000, 1000000, {}))
InitEntriesB == CustomEntries(SimEntry(999, 250, {}))
InitEntriesC == CustomEntries(SimEntry(1000, 900000, {}))

\* init_entries of CustomMempoolTests.test_D: a chain "0" <- "1" <- ... of
\* ChainLen entries, each depending on the next, the last on an entry that is
\* not there
ChainLen == 1000

InitEntriesD == [i \in 0..(ChainLen - 1) |-> SimEntry(10500 - i, 2000, {i + 1})]

\* init_entries['1000'] = SimEntry(1001, 2000)
with_ancestor(entries) == (ChainLen :> SimEntry(1001, 2000, {})) @@ entries

\* the (feerate, size) of the entries of a generated initial mempool
GenTx ==
    {[feerate |-> 999, size |-> 250],
     [feerate |-> 1000, size |-> 900000],
     [feerate |-> 10000, size |-> 250000],
     [feerate |-> 20000, size |-> 500000]}

\* generated mempools: entries 0..n-1, each depending on entries before it
GenEntries ==
    UNION {
        {[i \in 0..(n - 1) |-> SimEntry(tx[i].feerate, tx[i].size, dep[i])] :
            tx \in [0..(n - 1) -> GenTx],
            dep \in {d \in [0..(n - 1) -> SUBSET (0..(n - 1))] :
                        \A i \in 0..(n - 1) : \A j \in d[i] : j < i}}
        : n \in 0..MaxTx}

\* generated mempools in which some entry depends on a txid that is no key
HangingEntries ==
    UNION {
        {[i \in 0..(n - 1) |-> SimEntry(10000, 250000, dep[i])] :
            dep \in {d \in [0..(n - 1) -> SUBSET (0..n)] :
                        /\ \A i \in 0..(n - 1) : i \notin d[i]
                        /\ \E i \in 0..(n - 1) : n \in d[i]}}
        : n \in 1..(MaxTx - 1)}

\* a slip: the queue ordered by feerate ascending
LowestOf(entries, S) ==
    LET m == SetMin({entries[t].feerate : t \in S})
    IN CHOOSE t \in {u \in S : entries[u].feerate = m} : TRUE

\* the head of the queue: an entry with the highest feerate of a non-empty set
BestOf(entries, S) ==
    LET m == SetMax({entries[t].feerate : t \in S})
    IN CHOOSE t \in {u \in S : entries[u].feerate = m} : TRUE

\* a slip: a block must stay below maxblocksize
FitsBelow(pool, size, entry) == size + entry.size < pool.maxblocksize

\* adding the entry does not take the block past the pool's maxblocksize
Fits(pool, size, entry) == size + entry.size <= pool.maxblocksize

\* a slip: an entry is promoted as soon as one of its dependencies is included
PromotedOnAnyDep(entries, inc, indep) ==
    {t \in (DOMAIN entries \ inc) \ indep : entries[t].depends \cap inc # {}}

\* a slip: promoted entries wait for the next block
PromotedNextBlock(entries, inc, indep) == {}

\* the pending entries whose dependencies are all included now
Promoted(entries, inc, indep) ==
    {t \in (DOMAIN entries \ inc) \ indep : entries[t].depends \subseteq inc}

\* One pass of the selection loop of a block. st.indep holds the entries with
\* no unmet dependency, st.included the entries taken so far; the loop ends
\* (st.done) when no candidate is left, at the first candidate below the pool's
\* minfeerate, or at the first candidate that does not fit.
selectStep(entries, pool, st) ==
    IF st.done THEN st
    ELSE IF st.indep = {} THEN [st EXCEPT !.done = TRUE]
    ELSE LET cand == BestOf(entries, st.indep)
         IN IF entries[cand].feerate < pool.minfeerate
            THEN [st EXCEPT !.done = TRUE]
            ELSE IF ~Fits(pool, st.size, entries[cand])
            THEN [st EXCEPT !.done = TRUE, !.sizeltd = TRUE]
            ELSE LET inc == st.included \cup {cand}
                     promoted == Promoted(entries, inc, st.indep)
                 IN [st EXCEPT !.indep = (@ \ {cand}) \cup promoted,
                               !.included = inc,
                               !.txs = Append(@, cand),
                               !.size = @ + entries[cand].size]

\* n passes of the loop
RECURSIVE selectLoop(_, _, _, _)
selectLoop(entries, pool, st, n) ==
    IF n = 0 \/ st.done THEN st
    ELSE IF n = 1 THEN selectStep(entries, pool, st)
    ELSE LET half == selectLoop(entries, pool, st, n \div 2)
         IN selectLoop(entries, pool, half, n - (n \div 2))

\* the loop run to its end: every pass but the last takes one entry
selectTxs(entries, pool) ==
    selectLoop(entries, pool,
               [indep |-> {t \in DOMAIN entries : entries[t].depends = {}},
                included |-> {}, txs |-> <<>>, size |-> 0,
                sizeltd |-> FALSE, done |-> FALSE],
               Cardinality(DOMAIN entries) + 1)

\* the feerate of the lowest-feerate transaction of the block; inf for none
MinIncludedFeerate(entries, txs) ==
    IF txs = <<>> THEN SimInf
    ELSE SetMin({entries[txs[i]].feerate : i \in 1..Len(txs)})

\* a slip: the lowest included feerate itself
BlockSfrNoIncrement(entries, pool, sel) ==
    IF sel.sizeltd
    THEN (IF sel.txs = <<>> THEN SimInf ELSE MinIncludedFeerate(entries, sel.txs))
    ELSE pool.minfeerate

\* SimBlock.sfr, as the tests assert it: the lowest included feerate + 1 when
\* space ran out, the pool's minfeerate otherwise
BlockSfr(entries, pool, sel) ==
    IF sel.sizeltd
    THEN (IF sel.txs = <<>> THEN SimInf ELSE MinIncludedFeerate(entries, sel.txs) + 1)
    ELSE pool.minfeerate

\* a block that leaves its transactions in the mempool
process_block_keep(entries, poolname, height) ==
    LET pool == ref_pools[poolname]
        sel == selectTxs(entries, pool)
        inc == {sel.txs[i] : i \in 1..Len(sel.txs)}
    IN [block |-> [height |-> height, poolname |-> poolname, size |-> sel.size,
                   sfr |-> BlockSfr(entries, pool, sel), txs |-> sel.txs,
                   sizeltd |-> sel.sizeltd],
        entries |-> [t \in DOMAIN entries |-> [entries[t] EXCEPT !.depends = @ \ inc]]]

\* SimMempool._process_block: the block and the mempool it leaves
process_block(entries, poolname, height) ==
    LET pool == ref_pools[poolname]
        sel == selectTxs(entries, pool)
        inc == {sel.txs[i] : i \in 1..Len(sel.txs)}
    IN [block |-> [height |-> height, poolname |-> poolname, size |-> sel.size,
                   sfr |-> BlockSfr(entries, pool, sel), txs |-> sel.txs,
                   sizeltd |-> sel.sizeltd],
        entries |-> [t \in DOMAIN entries \ inc |->
                        [entries[t] EXCEPT !.depends = @ \ inc]]]

NoBlock == [height |-> 0, poolname |-> "none", size |-> 0, sfr |-> 0, txs |-> <<>>,
            sizeltd |-> FALSE]

SimIdle ==
    /\ simEntries = <<>>
    /\ simPrev = <<>>
    /\ simBlock = NoBlock
    /\ simHeight = 0
    /\ simMode = "idle"
    /\ simDeps = <<>>
    /\ simDone = {}
    /\ simTxRate = 0
    /\ simPc = "idle"

\* CustomMempoolTests.setUp (PseudoPools, txrate 0) with the init_entries of
\* test_A, test_B, test_C, test_D; or SimPools(ref_pools) with a generated
\* mempool
SimInit ==
    /\ \/ /\ simMode = "S3" /\ simEntries = InitEntriesA /\ simTxRate = 0
       \/ /\ simMode = "S4" /\ simEntries = InitEntriesB /\ simTxRate = 0
       \/ /\ simMode = "TC" /\ simEntries = InitEntriesC /\ simTxRate = 0
       \/ /\ simMode = "TD" /\ simEntries = InitEntriesD /\ simTxRate = 0
       \/ /\ simMode = "gen" /\ simEntries \in GenEntries \cup HangingEntries
          /\ simTxRate \in {0, 1}
    /\ simPrev = <<>>
    /\ simBlock = NoBlock
    /\ simHeight = 0
    /\ simDeps = [t \in DOMAIN simEntries |-> simEntries[t].depends]
    /\ simDone = {}
    /\ simPc = "init"

\* a run that takes any init_entries
SimRunUnchecked ==
    /\ simPc = "init"
    /\ simPc' = "running"
    /\ UNCHANGED <<simEntries, simPrev, simBlock, simHeight, simMode, simDeps, simDone,
                   simTxRate>>
    /\ UNCHANGED <<sfrVars, dbVars, stVars, nodeVars, tkVars, rtVars, ssVars, poVars, prVars, epVars, ibVars, emVars>>

\* Simul.run(init_entries): a hanging dependency is refused with ValueError
SimRun ==
    /\ simPc = "init"
    /\ simPc' = IF \A t \in DOMAIN simEntries :
                      simEntries[t].depends \subseteq DOMAIN simEntries
                THEN "running" ELSE "error"
    /\ UNCHANGED <<simEntries, simPrev, simBlock, simHeight, simMode, simDeps, simDone,
                   simTxRate>>
    /\ UNCHANGED <<sfrVars, dbVars, stVars, nodeVars, tkVars, rtVars, ssVars, poVars, prVars, epVars, ibVars, emVars>>

\* the transactions the emitter adds in a block interval: none at txrate 0,
\* else at most one draw of ref_txsample per free txid
Emitted(entries) ==
    LET fresh == Cardinality(DOMAIN simDeps)
    IN {entries} \cup
       (IF simTxRate > 0 /\ fresh < MaxTx
        THEN {(fresh :> SimEntry(tx.feerate, tx.size, {})) @@ entries : tx \in ref_txsample}
        ELSE {})

\* one iteration of Simul.run: the next (simblock, blockinterval) of the block
\* generator, the arrivals of the interval, then _process_block
SimStep ==
    /\ simPc = "running"
    /\ simHeight < (IF simMode = "TD" THEN TestDBlocks ELSE MaxBlocks)
    /\ \E poolname \in DOMAIN ref_pools, arrived \in Emitted(simEntries) :
          /\ simMode # "gen" => poolname = PseudoPoolOrder[(simHeight % 3) + 1]
          /\ LET r == process_block(arrived, poolname, simHeight + 1)
             IN /\ simPrev' = arrived
                /\ simBlock' = r.block
                /\ simEntries' = r.entries
          /\ simDeps' = [t \in DOMAIN simDeps \cup DOMAIN arrived |->
                            IF t \in DOMAIN simDeps THEN simDeps[t] ELSE {}]
    /\ simDone' = simDone \cup {simBlock.txs[i] : i \in 1..Len(simBlock.txs)}
    /\ simHeight' = simHeight + 1
    /\ UNCHANGED <<simMode, simTxRate, simPc>>
    /\ UNCHANGED <<sfrVars, dbVars, stVars, nodeVars, tkVars, rtVars, ssVars, poVars, prVars, epVars, ibVars, emVars>>

\* test_D after the ValueError: the missing ancestor is added to init_entries
\* and sim.run is called again
SimAddAncestor ==
    /\ simPc = "error"
    /\ simMode = "TD"
    /\ simEntries' = with_ancestor(simEntries)
    /\ simDeps' = [t \in DOMAIN simEntries' |-> simEntries'[t].depends]
    /\ simPc' = "init"
    /\ UNCHANGED <<simPrev, simBlock, simHeight, simMode, simDone, simTxRate>>
    /\ UNCHANGED <<sfrVars, dbVars, stVars, nodeVars, tkVars, rtVars, ssVars, poVars, prVars, epVars, ibVars, emVars>>

SimNext == SimRun \/ SimStep \/ SimAddAncestor

(***************************************************************************)
(* Python values as the history store converts them: str as a sequence of  *)
(* characters, decimal.Decimal as sign, digits (_int) and exponent (_exp)  *)
(***************************************************************************)
Digits == <<"0", "1", "2", "3", "4", "5", "6", "7", "8", "9">>
DigitChar(d) == Digits[d + 1]
DigitVal(c) == CHOOSE d \in 0..9 : Digits[d + 1] = c

\* s.find(c) + 1: the first place of c in s, 0 if there is none
IndexOf(s, c) ==
    IF \E i \in 1..Len(s) : s[i] = c
    THEN SetMin({i \in 1..Len(s) : s[i] = c})
    ELSE 0

\* str(n), n >= 0
RECURSIVE IntStr(_)
IntStr(n) ==
    IF n < 10 THEN <<DigitChar(n)>>
    ELSE Append(IntStr(n \div 10), DigitChar(n % 10))

\* int(s), s made of digits
RECURSIVE StrInt(_)
StrInt(s) ==
    IF s = <<>> THEN 0
    ELSE 10 * StrInt(SubSeq(s, 1, Len(s) - 1)) + DigitVal(s[Len(s)])

\* "%+d" % n
SignedStr(n) == IF n < 0 THEN <<"-">> \o IntStr(0 - n) ELSE <<"+">> \o IntStr(n)

\* int(s), s a signed exponent
SignedInt(s) ==
    IF s[1] = "-" THEN 0 - StrInt(Tail(s))
    ELSE IF s[1] = "+" THEN StrInt(Tail(s))
    ELSE StrInt(s)

Zeros(n) == [i \in 1..n |-> "0"]

Decimal(int, exp) == [sign |-> 0, int |-> int, exp |-> exp]

\* str(d) of a decimal.Decimal: plain notation while the exponent is not
\* positive and the number is not below 1E-6, scientific otherwise
DecimalStr(d) ==
    LET n == Len(d.int)
        leftdigits == d.exp + n
        dotplace == IF d.exp <= 0 /\ leftdigits > 0 - 6 THEN leftdigits ELSE 1
        intpart == IF dotplace <= 0 THEN <<"0">>
                   ELSE IF dotplace >= n THEN d.int \o Zeros(dotplace - n)
                   ELSE SubSeq(d.int, 1, dotplace)
        fracpart == IF dotplace <= 0 THEN <<".">> \o Zeros(0 - dotplace) \o d.int
                    ELSE IF dotplace >= n THEN <<>>
                    ELSE <<".">> \o SubSeq(d.int, dotplace + 1, n)
        exp == IF leftdigits = dotplace THEN <<>>
               ELSE <<"E">> \o SignedStr(leftdigits - dotplace)
    IN (IF d.sign = 1 THEN <<"-">> ELSE <<>>) \o intpart \o fracpart \o exp

\* decimal.Decimal(s) of a numeric string
DecimalParse(s) ==
    LET neg == s # <<>> /\ s[1] = "-"
        body == IF neg THEN Tail(s) ELSE s
        e == IndexOf(body, "E")
        mant == IF e = 0 THEN body ELSE SubSeq(body, 1, e - 1)
        p == IndexOf(mant, ".")
        intpart == IF p = 0 THEN mant ELSE SubSeq(mant, 1, p - 1)
        fracpart == IF p = 0 THEN <<>> ELSE SubSeq(mant, p + 1, Len(mant))
        exp == IF e = 0 THEN 0 ELSE SignedInt(SubSeq(body, e + 1, Len(body)))
    IN [sign |-> IF neg THEN 1 ELSE 0,
        int |-> IntStr(StrInt(intpart \o fracpart)),
        exp |-> exp - Len(fracpart)]

\* ','.join(l)
RECURSIVE JoinComma(_)
JoinComma(l) ==
    IF l = <<>> THEN <<>>
    ELSE IF Len(l) = 1 THEN l[1]
    ELSE l[1] \o <<",">> \o JoinComma(Tail(l))

\* s.split(',')
RECURSIVE SplitComma(_)
SplitComma(s) ==
    LET i == IndexOf(s, ",")
    IN IF i = 0 THEN <<s>>
       ELSE <<SubSeq(s, 1, i - 1)>> \o SplitComma(SubSeq(s, i + 1, Len(s)))

\* sqlite3 stores a Python bool in an INTEGER column as 1 or 0
SqlBool(b) == IF b THEN 1 ELSE 0

(***************************************************************************)
(* txmempool.py: MemEntry and MemBlock on the history store                *)
(***************************************************************************)
MaxStoreHeight == 3     \* block heights written to the store are 1..MaxStoreHeight

\* MemEntry._get_attr_tuple, as the row sqlite keeps
get_attr_tuple(entry) ==
    <<entry.size,
      DecimalStr(entry.fee),
      DecimalStr(entry.startingpriority),
      DecimalStr(entry.currentpriority),
      entry.time,
      entry.height,
      JoinComma(entry.depends),
      entry.feerate,
      entry.leadtime,
      SqlBool(entry.isconflict),
      SqlBool(entry.inblock)>>

\* whether _get_attr_tuple raises ValueError: leadtime, isconflict, inblock unset
Unprocessed(entry) == {"leadtime", "isconflict", "inblock"} \cap DOMAIN entry = {}

\* a slip: the empty depends column split without the guard
from_attr_tuple_noguard(tup) ==
    [size |-> tup[1],
     fee |-> DecimalParse(tup[2]),
     startingpriority |-> DecimalParse(tup[3]),
     currentpriority |-> DecimalParse(tup[4]),
     time |-> tup[5],
     height |-> tup[6],
     depends |-> SplitComma(tup[7]),
     feerate |-> tup[8],
     leadtime |-> tup[9],
     isconflict |-> tup[10] # 0,
     inblock |-> tup[11] # 0]

\* MemEntry._from_attr_tuple
from_attr_tuple(tup) ==
    [size |-> tup[1],
     fee |-> DecimalParse(tup[2]),
     startingpriority |-> DecimalParse(tup[3]),
     currentpriority |-> DecimalParse(tup[4]),
     time |-> tup[5],
     height |-> tup[6],
     depends |-> IF tup[7] # <<>> THEN SplitComma(tup[7]) ELSE <<>>,
     feerate |-> tup[8],
     leadtime |-> tup[9],
     isconflict |-> tup[10] # 0,
     inblock |-> tup[11] # 0]

\* the rows of the first transaction of MemBlock.write
BlockRow(m) == <<m.blockheight, m.blocksize, m.time>>
TxRows(m) ==
    {<<m.blockheight, txid>> \o get_attr_tuple(m.entries[txid]) : txid \in DOMAIN m.entries}

\* the tables after the first transaction of write: the INSERTs
InsertBlock(blocks, txs, m) ==
    [blocks |-> blocks \cup {BlockRow(m)}, txs |-> txs \cup TxRows(m)]

\* a slip: the blocks at the threshold height are kept
PruneBelow(blocks, txs, height_thresh) ==
    [blocks |-> {r \in blocks : ~(r[1] < height_thresh)},
     txs |-> {r \in txs : ~(r[1] < height_thresh)}]

\* the tables after the second transaction of write: the DELETEs
Prune(blocks, txs, height_thresh) ==
    [blocks |-> {r \in blocks : ~(r[1] <= height_thresh)},
     txs |-> {r \in txs : ~(r[1] <= height_thresh)}]

\* What sqlite may do to a write() call: every statement succeeds ("ok"), or
\* the first transaction raises and is rolled back ("insert_failed"), or the
\* second one does ("delete_failed").
Faults == {"ok", "insert_failed", "delete_failed"}

\* MemBlock.write(dbfile, blocks_to_keep): the tables it leaves and how it
\* ended. The INSERT into blocks raises on a height already stored (height is
\* UNIQUE); an exception inside a "with db" block rolls that transaction back.
write(blocks, txs, m, blocks_to_keep, fault) ==
    IF \/ fault = "insert_failed"
       \/ \E r \in blocks : r[1] = m.blockheight
       \/ \E txid \in DOMAIN m.entries : Unprocessed(m.entries[txid])
    THEN [blocks |-> blocks, txs |-> txs, outcome |-> "insert_failed"]
    ELSE LET ins == InsertBlock(blocks, txs, m)
         IN IF blocks_to_keep > 0
            THEN IF fault = "delete_failed"
                 THEN [blocks |-> ins.blocks, txs |-> ins.txs, outcome |-> "delete_failed"]
                 ELSE LET del == Prune(ins.blocks, ins.txs, m.blockheight - blocks_to_keep)
                      IN [blocks |-> del.blocks, txs |-> del.txs, outcome |-> "ok"]
            ELSE [blocks |-> ins.blocks, txs |-> ins.txs, outcome |-> "ok"]

\* read() of a height with no row in blocks
NoMemBlock == [blockheight |-> None]

\* MemBlock.read(blockheight)
read(blocks, txs, blockheight) ==
    LET block == {r \in blocks : r[1] = blockheight}
        txlist == {r \in txs : r[1] = blockheight}
    IN IF block = {} THEN NoMemBlock
       ELSE LET row == CHOOSE r \in block : TRUE
            IN [height |-> blockheight - 1,
                entries |-> [txid \in {tx[2] : tx \in txlist} |->
                                from_attr_tuple(SubSeq(
                                    CHOOSE tx \in txlist : tx[2] = txid, 3, 13))],
                time |-> row[3],
                blockheight |-> blockheight,
                blocksize |-> row[2]]

DbInit ==
    /\ dbBlocks = {}
    /\ dbTxs = {}

\* the decimals of the entries written: fees and priorities as the node
\* reports them
StoreDecimals ==
    {Decimal(int, exp) :
        int \in {<<"0">>, <<"1", "0">>, <<"1", "0", "5">>},
        exp \in {0 - 9, 0 - 8, 0 - 4, 0 - 1, 0, 2}}

StoreDepends == {<<>>, << <<"a">> >>, << <<"a", "b">>, <<"a">> >>}

\* a recorded MemEntry
BaseEntry ==
    [size |-> 250, fee |-> Decimal(<<"1">>, 0 - 4),
     startingpriority |-> Decimal(<<"0">>, 0),
     currentpriority |-> Decimal(<<"1", "5">>, 0 - 1),
     time |-> 5, height |-> 0, depends |-> <<>>, feerate |-> 400,
     leadtime |-> 1, isconflict |-> FALSE, inblock |-> TRUE]

\* recorded MemEntries: each attribute the store converts takes its values
StoreEntries ==
    {[BaseEntry EXCEPT !.fee = d] : d \in StoreDecimals}
    \cup {[BaseEntry EXCEPT !.startingpriority = d, !.currentpriority = d] :
            d \in {Decimal(<<"5">>, 7), Decimal(<<"1", "0", "5">>, 0 - 3)}}
    \cup {[BaseEntry EXCEPT !.depends = l] : l \in StoreDepends}
    \cup {[BaseEntry EXCEPT !.isconflict = f[1], !.inblock = f[2]] :
            f \in {<<FALSE, FALSE>>, <<TRUE, FALSE>>}}

\* the recorded MemBlock of a block height
StoreMemBlock(blockheight) ==
    [height |-> blockheight - 1,
     entries |-> [txid \in stTxids |->
                    IF txid = <<"a">> THEN stEntry
                    ELSE [BaseEntry EXCEPT !.depends = << <<"a">> >>]],
     time |-> 10 * blockheight,
     blockheight |-> blockheight,
     blocksize |-> 1000 + blockheight]

StIdle ==
    /\ stEntry = <<>>
    /\ stTxids = {}
    /\ stKeep = 0
    /\ stWritten = NoMemBlock
    /\ stOutcome = "none"
    /\ stRead = NoMemBlock
    /\ stReadOf = 0

StInit ==
    /\ stEntry \in StoreEntries
    /\ stTxids \in {{}, {<<"a">>, <<"a", "b">>}}
    /\ stKeep \in {0 - 1, 0, 1, 2}
    /\ stWritten = NoMemBlock
    /\ stOutcome = "none"
    /\ stRead = NoMemBlock
    /\ stReadOf = 0

\* a call of MemBlock.write
StoreWrite ==
    \E blockheight \in 1..MaxStoreHeight, fault \in Faults :
        LET m == StoreMemBlock(blockheight)
            r == write(dbBlocks, dbTxs, m, stKeep, fault)
        IN /\ dbBlocks' = r.blocks
           /\ dbTxs' = r.txs
           /\ stWritten' = m
           /\ stOutcome' = r.outcome
           /\ stRead' = NoMemBlock
           /\ stReadOf' = 0
           /\ UNCHANGED <<stEntry, stTxids, stKeep>>
           /\ UNCHANGED <<sfrVars, simVars, nodeVars, tkVars, rtVars, ssVars, poVars, prVars, epVars, ibVars, emVars>>

\* a call of MemBlock.read
StoreRead ==
    \E blockheight \in 1..MaxStoreHeight :
        /\ stRead' = read(dbBlocks, dbTxs, blockheight)
        /\ stReadOf' = blockheight
        /\ UNCHANGED <<dbVars, stEntry, stTxids, stKeep, stWritten, stOutcome>>
        /\ UNCHANGED <<sfrVars, simVars, nodeVars, tkVars, rtVars, ssVars, poVars, prVars, epVars, ibVars, emVars>>

StoreNext == StoreWrite \/ StoreRead

(***************************************************************************)
(* txmempool.py: TxMempool, the thread that polls the node and records a   *)
(* MemBlock for every block found between two polls                        *)
(***************************************************************************)
MaxTxid == 2        \* the transactions the node may see are 1..MaxTxid
MaxHeight == 2      \* the blocks the node may find

\* the txid of a transaction
Txid(t) == IntStr(t)

\* the transactions whose outputs transaction t spends: an even transaction
\* spends the odd one before it
Parents(t) == IF t % 2 = 0 THEN {t - 1} ELSE {}

Confirmed == UNION {nodeBlocks[h] : h \in 1..Len(nodeBlocks)}

NodeInit ==
    /\ nodeHeight = 0
    /\ nodeBlocks = <<>>
    /\ nodeMempool = <<>>
    /\ nodeSeen = {}
    /\ nodeClock = 0
    /\ nodeRpc = "reliable"

\* the node hears of the next transaction: it accepts it to its mempool, or
\* rejects it when a parent is neither in the mempool nor confirmed
NodeAccept ==
    \E t \in {Cardinality(nodeSeen) + 1} \cap (1..MaxTxid) :
        /\ nodeMempool' =
              IF Parents(t) \subseteq DOMAIN nodeMempool \cup Confirmed
              THEN [u \in DOMAIN nodeMempool \cup {t} |->
                      IF u = t THEN [time |-> nodeClock, height |-> nodeHeight]
                      ELSE nodeMempool[u]]
              ELSE nodeMempool
        /\ nodeSeen' = nodeSeen \cup {t}
        /\ nodeClock' = nodeClock + 1
        /\ UNCHANGED <<nodeHeight, nodeBlocks, nodeRpc>>
        /\ UNCHANGED <<sfrVars, simVars, dbVars, stVars, tkVars, rtVars, ssVars, poVars, prVars, epVars, ibVars, emVars>>

\* the node connects a block: the block confirms some mempool transactions,
\* never a child without its parent, and the node drops the transactions the
\* block conflicts with, never a parent without its children
NodeBlock ==
    /\ nodeHeight < MaxHeight
    /\ \E inblock \in SUBSET DOMAIN nodeMempool :
        \E conflicts \in SUBSET (DOMAIN nodeMempool \ inblock) :
            LET remain == DOMAIN nodeMempool \ (inblock \cup conflicts)
            IN /\ \A t \in inblock : Parents(t) \cap DOMAIN nodeMempool \subseteq inblock
               /\ \A t \in remain : Parents(t) \cap conflicts = {}
               /\ nodeBlocks' = Append(nodeBlocks, inblock)
               /\ nodeMempool' = [t \in remain |-> nodeMempool[t]]
    /\ nodeHeight' = nodeHeight + 1
    /\ nodeClock' = nodeClock + 1
    /\ UNCHANGED <<nodeSeen, nodeRpc>>
    /\ UNCHANGED <<sfrVars, simVars, dbVars, stVars, tkVars, rtVars, ssVars, poVars, prVars, epVars, ibVars, emVars>>

\* getrawmempool(verbose=True): depends lists the parents still in the mempool
rawmempool ==
    [txid \in {Txid(t) : t \in DOMAIN nodeMempool} |->
        LET t == CHOOSE u \in DOMAIN nodeMempool : Txid(u) = txid
        IN [size |-> BaseEntry.size,
            fee |-> BaseEntry.fee,
            startingpriority |-> BaseEntry.startingpriority,
            currentpriority |-> BaseEntry.currentpriority,
            time |-> nodeMempool[t].time,
            height |-> nodeMempool[t].height,
            depends |-> IF Parents(t) \cap DOMAIN nodeMempool = {} THEN <<>>
                        ELSE <<Txid(CHOOSE u \in Parents(t) : TRUE)>>]]

\* MemEntry.from_rawentry
from_rawentry(rawentry) ==
    [size |-> rawentry.size,
     fee |-> rawentry.fee,
     startingpriority |-> rawentry.startingpriority,
     currentpriority |-> rawentry.currentpriority,
     time |-> rawentry.time,
     height |-> rawentry.height,
     depends |-> rawentry.depends,
     feerate |-> BaseEntry.feerate]

\* MempoolState(height, rawmempool)
MempoolState(height, raw, time) ==
    [height |-> height,
     entries |-> [txid \in DOMAIN raw |-> from_rawentry(raw[txid])],
     time |-> time]

\* a response of the batch: with a result, with an error, or with neither
PollResponses == {"result", "error", "noresult"}

\* the batches the node may answer a poll with
Polls == IF nodeRpc = "reliable" THEN {<<"result", "result">>}
         ELSE [1..2 -> PollResponses]

JSONRPCException == [raised |-> "JSONRPCException"]

\* a poll that hands on whatever result it finds
poll_mempool_partial(responses) ==
    [blockcount |-> IF responses[1] = "result" THEN nodeHeight ELSE None,
     mempool |-> IF responses[2] = "result" THEN rawmempool ELSE <<>>]

\* BatchProxy.poll_mempool: the results of getblockcount and getrawmempool,
\* or JSONRPCException for the first response with an error or no result
poll_mempool(responses) ==
    IF \E i \in 1..2 : responses[i] # "result"
    THEN JSONRPCException
    ELSE [blockcount |-> nodeHeight, mempool |-> rawmempool]

\* get_mempool_state(), given what poll_mempool returned
get_mempool_state(polled) == MempoolState(polled.blockcount, polled.mempool, nodeClock)

\* self.state before run() and after it ends
NoState == [height |-> None]

\* the txids of proxy.getblock(proxy.getblockhash(blockheight)).vtx
blocktxids(blockheight) == {Txid(t) : t \in nodeBlocks[blockheight]}

\* the entry a MemBlock records for an entry of the state
RecordedEntry(entry, time, inblock) ==
    [size |-> entry.size,
     fee |-> entry.fee,
     startingpriority |-> entry.startingpriority,
     currentpriority |-> entry.currentpriority,
     time |-> entry.time,
     height |-> entry.height,
     depends |-> entry.depends,
     feerate |-> entry.feerate,
     leadtime |-> time - entry.time,
     isconflict |-> FALSE,
     inblock |-> inblock]

\* a slip: the MemBlock takes its height after the state's height is raised
record_block_late(state) ==
    LET blockheight == state.height + 1
        entries_inblock == DOMAIN state.entries \cap blocktxids(blockheight)
    IN [memblock |->
            [height |-> state.height + 1,
             entries |-> [txid \in DOMAIN state.entries |->
                            RecordedEntry(state.entries[txid], state.time,
                                          txid \in entries_inblock)],
             time |-> state.time,
             blockheight |-> blockheight,
             blocksize |-> 1000 + blockheight],
        state |-> [height |-> state.height + 1,
                   entries |-> [txid \in DOMAIN state.entries \ entries_inblock |->
                                  state.entries[txid]],
                   time |-> state.time]]

\* MemBlock.record_block(state): the MemBlock recorded and the state as the
\* call leaves it
record_block(state) ==
    LET blockheight == state.height + 1
        entries_inblock == DOMAIN state.entries \cap blocktxids(blockheight)
    IN [memblock |->
            [height |-> state.height,
             entries |-> [txid \in DOMAIN state.entries |->
                            RecordedEntry(state.entries[txid], state.time,
                                          txid \in entries_inblock)],
             time |-> state.time,
             blockheight |-> blockheight,
             blocksize |-> 1000 + blockheight],
        state |-> [height |-> state.height + 1,
                   entries |-> [txid \in DOMAIN state.entries \ entries_inblock |->
                                  state.entries[txid]],
                   time |-> state.time]]

\* the loop of process_blocks: one MemBlock per block up to newstate.height
RECURSIVE recordLoop(_, _, _)
recordLoop(prevstate, newstate, memblocks) ==
    IF prevstate.height < newstate.height
    THEN LET r == record_block(prevstate)
         IN recordLoop(r.state, newstate, Append(memblocks, r.memblock))
    ELSE [prevstate |-> prevstate, memblocks |-> memblocks]

\* MempoolState.__copy__: a new state of the same height and time, each
\* entry copied
MempoolState_copy(state) ==
    [height |-> state.height,
     entries |-> [txid \in DOMAIN state.entries |-> state.entries[txid]],
     time |-> state.time]

\* the loop run on the object it was given
prevstate_given(prevstate) == [object |-> "given", state |-> prevstate]

\* prevstate = copy(prevstate): the object the loop of process_blocks runs on
prevstate_copy(prevstate) == [object |-> "copy", state |-> MempoolState_copy(prevstate)]

\* the two objects process_blocks was given, as it leaves them: record_block
\* deletes entries of, and raises the height of, the object the loop runs on;
\* newstate is read only
process_blocks_args(prevstate, newstate) ==
    LET local == prevstate_copy(prevstate)
        r == recordLoop(local.state, newstate, <<>>)
    IN <<IF local.object = "given" THEN r.prevstate ELSE prevstate, newstate>>

\* conflicts flagged in every MemBlock and removed from none
process_blocks_flagall(prevstate, newstate) ==
    LET r == recordLoop(prevstate, newstate, <<>>)
        conflicts == DOMAIN r.prevstate.entries \ DOMAIN newstate.entries
    IN [i \in 1..Len(r.memblocks) |->
          LET memblock == r.memblocks[i]
          IN [memblock EXCEPT !.entries =
                 [txid \in DOMAIN memblock.entries |->
                     IF txid \in conflicts
                     THEN [memblock.entries[txid] EXCEPT !.isconflict = TRUE]
                     ELSE memblock.entries[txid]]]]

\* the MemBlocks process_blocks(prevstate, newstate) returns
process_blocks(prevstate, newstate) ==
    LET r == recordLoop(prevstate, newstate, <<>>)
        conflicts == DOMAIN r.prevstate.entries \ DOMAIN newstate.entries
    IN [i \in 1..Len(r.memblocks) |->
          LET memblock == r.memblocks[i]
          IN IF i = 1
             THEN [memblock EXCEPT !.entries =
                      [txid \in DOMAIN memblock.entries |->
                          IF txid \in conflicts
                          THEN [memblock.entries[txid] EXCEPT !.isconflict = TRUE]
                          ELSE memblock.entries[txid]]]
             ELSE [memblock EXCEPT !.entries =
                      [txid \in DOMAIN memblock.entries \ conflicts |->
                          memblock.entries[txid]]]]

\* a slip: the first exception of a write ends the loop
RECURSIVE writeAllStop(_, _, _, _, _, _)
writeAllStop(blocks, txs, memblocks, blocks_to_keep, faults, i) ==
    IF i > Len(memblocks) THEN [blocks |-> blocks, txs |-> txs, outcomes |-> <<>>]
    ELSE LET r == write(blocks, txs, memblocks[i], blocks_to_keep, faults[i])
             rest == IF r.outcome = "ok"
                     THEN writeAllStop(r.blocks, r.txs, memblocks, blocks_to_keep,
                                       faults, i + 1)
                     ELSE [blocks |-> r.blocks, txs |-> r.txs, outcomes |-> <<>>]
         IN [blocks |-> rest.blocks, txs |-> rest.txs,
             outcomes |-> <<r.outcome>> \o rest.outcomes]

\* the tables after the writes of process_blocks, faults[i] being what sqlite
\* does to the write of the i-th MemBlock; an exception of a write is logged
\* and the next MemBlock is written
RECURSIVE writeAll(_, _, _, _, _, _)
writeAll(blocks, txs, memblocks, blocks_to_keep, faults, i) ==
    IF i > Len(memblocks) THEN [blocks |-> blocks, txs |-> txs, outcomes |-> <<>>]
    ELSE LET r == write(blocks, txs, memblocks[i], blocks_to_keep, faults[i])
             rest == writeAll(r.blocks, r.txs, memblocks, blocks_to_keep, faults, i + 1)
         IN [blocks |-> rest.blocks, txs |-> rest.txs,
             outcomes |-> <<r.outcome>> \o rest.outcomes]

TkIdle ==
    /\ tkPc = "idle"
    /\ tkKeep = 0
    /\ tkState = NoState
    /\ tkQueue = <<>>
    /\ tkJob = <<>>
    /\ tkMemblocks = <<>>
    /\ tkPoll = <<>>
    /\ tkArgs = <<>>
    /\ tkWrites = <<>>

NodeIdle ==
    /\ nodeHeight = 0
    /\ nodeBlocks = <<>>
    /\ nodeMempool = <<>>
    /\ nodeSeen = {}
    /\ nodeClock = 0
    /\ nodeRpc = "reliable"

\* TxMempool.__init__
TkInit ==
    /\ tkPc = "stopped"
    /\ tkKeep \in {0, 1}
    /\ tkState = NoState
    /\ tkQueue = <<>>
    /\ tkJob = <<>>
    /\ tkMemblocks = <<>>
    /\ tkPoll = <<>>
    /\ tkArgs = <<>>
    /\ tkWrites = <<>>

\* TxMempool.run up to its loop: the block worker starts, the first state is
\* polled; an exception of the poll leaves through the finally clause
TkRun ==
    /\ tkPc = "stopped"
    /\ \E responses \in Polls :
          LET polled == poll_mempool(responses)
          IN /\ tkPoll' = responses
             /\ IF polled = JSONRPCException
                THEN tkPc' = "raised" /\ UNCHANGED tkState
                ELSE tkPc' = "running" /\ tkState' = get_mempool_state(polled)
    /\ UNCHANGED <<tkKeep, tkQueue, tkJob, tkMemblocks, tkArgs, tkWrites>>
    /\ UNCHANGED <<sfrVars, simVars, dbVars, stVars, nodeVars, rtVars, ssVars, poVars, prVars, epVars, ibVars, emVars>>

\* an update that takes whatever the poll found
TkUpdateUnchecked ==
    /\ tkPc = "running"
    /\ \E responses \in Polls :
          LET newstate == get_mempool_state(poll_mempool_partial(responses))
          IN /\ tkPoll' = responses
             /\ tkQueue' = IF newstate.height > tkState.height
                           THEN Append(tkQueue, <<tkState, newstate>>)
                           ELSE tkQueue
             /\ tkState' = newstate
             /\ UNCHANGED tkPc
    /\ UNCHANGED <<tkKeep, tkJob, tkMemblocks, tkArgs, tkWrites>>
    /\ UNCHANGED <<sfrVars, simVars, dbVars, stVars, nodeVars, rtVars, ssVars, poVars, prVars, epVars, ibVars, emVars>>

\* TxMempool.update, called every poll_period from the loop of run; an
\* exception of get_mempool_state ends it before anything is assigned
TkUpdate ==
    /\ tkPc = "running"
    /\ \E responses \in Polls :
          LET polled == poll_mempool(responses)
          IN /\ tkPoll' = responses
             /\ IF polled = JSONRPCException
                THEN /\ tkPc' = "raised"
                     /\ UNCHANGED <<tkState, tkQueue>>
                ELSE LET newstate == get_mempool_state(polled)
                     IN /\ tkQueue' = IF newstate.height > tkState.height
                                      THEN Append(tkQueue, <<tkState, newstate>>)
                                      ELSE tkQueue
                        /\ tkState' = newstate
                        /\ UNCHANGED tkPc
    /\ UNCHANGED <<tkKeep, tkJob, tkMemblocks, tkArgs, tkWrites>>
    /\ UNCHANGED <<sfrVars, simVars, dbVars, stVars, nodeVars, rtVars, ssVars, poVars, prVars, epVars, ibVars, emVars>>

\* the finally clause of run, the exception on its way out: self.state = None;
\* auto_restart calls run again
TkFinally ==
    /\ tkPc = "raised"
    /\ tkPc' = "stopped"
    /\ tkState' = NoState
    /\ tkPoll' = <<>>
    /\ UNCHANGED <<tkKeep, tkQueue, tkJob, tkMemblocks, tkArgs, tkWrites>>
    /\ UNCHANGED <<sfrVars, simVars, dbVars, stVars, nodeVars, rtVars, ssVars, poVars, prVars, epVars, ibVars, emVars>>

\* the block worker runs the oldest call put to it: process_blocks
TkProcessBlocks ==
    /\ tkQueue # <<>>
    /\ LET prevstate == tkQueue[1][1]
           newstate == tkQueue[1][2]
           memblocks == process_blocks(prevstate, newstate)
           args == process_blocks_args(prevstate, newstate)
       IN /\ tkMemblocks' = memblocks
          /\ tkJob' = tkQueue[1]
          /\ tkArgs' = args
          /\ tkState' = IF tkState = newstate THEN args[2] ELSE tkState
          /\ \E faults \in [1..Len(memblocks) -> Faults] :
                LET r == writeAll(dbBlocks, dbTxs, memblocks, tkKeep, faults, 1)
                IN /\ dbBlocks' = r.blocks
                   /\ dbTxs' = r.txs
                   /\ tkWrites' = r.outcomes
    /\ tkQueue' = Tail(tkQueue)
    /\ UNCHANGED <<tkPc, tkKeep, tkPoll>>
    /\ UNCHANGED <<sfrVars, simVars, stVars, nodeVars, rtVars, ssVars, poVars, prVars, epVars, ibVars, emVars>>

TrackerNext == NodeAccept \/ NodeBlock \/ TkRun \/ TkUpdate \/ TkProcessBlocks

\* the tracker polling a node whose responses may carry errors; the block
\* worker is left out, the calls put to it stay in the queue
PollInit ==
    /\ nodeHeight = 0
    /\ nodeBlocks = <<>>
    /\ nodeMempool = <<>>
    /\ nodeSeen = {}
    /\ nodeClock = 0
    /\ nodeRpc = "faulty"

PollNext == NodeAccept \/ NodeBlock \/ TkRun \/ TkUpdate \/ TkFinally

(***************************************************************************)
(* simul: the capacity of the pools and the byterate of the transaction    *)
(* source as functions of the feerate, and the stable feerate of a Simul.  *)
(* Floats are kept as integers: hashrates and txrates in tenths, the       *)
(* capacities in units of 1/6000 byte per second (hashrate in tenths times *)
(* maxblocksize, at the block rate 1/600 of the tests), the byterates of a *)
(* TxSource in units of 1/(10 n) byte per second, n the sample length.     *)
(* feemodel/simul/pools.py and simul.py are not in the source tree:        *)
(* get_capacity and Simul follow section 3 and 4.4 of the specification    *)
(* and the values tests/test_simul.py asserts.                             *)
(***************************************************************************)
MaxPools == 2       \* pools of a generated SimPools
MaxSample == 2      \* transactions of a generated txsample
MaxGrid == 3        \* feerates of a generated Capacity

\* a variable of a part that has not been given a value yet
Unset == [unset |-> TRUE]

PoolNames == <<"pool0", "pool1", "pool2", "pool3">>

SimPool(hashrate, maxblocksize, minfeerate) ==
    [hashrate |-> hashrate, maxblocksize |-> maxblocksize, minfeerate |-> minfeerate]

\* test_caps: "Duplicate minfeerate"
dup_pools ==
    [pool0 |-> ref_pools.pool0,
     pool1 |-> [ref_pools.pool1 EXCEPT !.hashrate = 2],
     pool2 |-> ref_pools.pool2,
     pool3 |-> SimPool(1, 600000, 1000)]

\* test_caps: "Inf minfeerate"
inf_pools == [ref_pools EXCEPT !.pool0.minfeerate = SimInf]

\* test_caps: "Only inf minfeerate"
onlyinf_pools == [n \in DOMAIN ref_pools |-> [ref_pools[n] EXCEPT !.minfeerate = SimInf]]

\* test_caps: "Empty pools"
empty_pools == [n \in {} |-> SimPool(0, 0, SimInf)]

RECURSIVE calc_totalhashrate(_, _)
calc_totalhashrate(pools, names) ==
    IF names = {} THEN 0
    ELSE LET n == CHOOSE m \in names : TRUE
         IN pools[n].hashrate + calc_totalhashrate(pools, names \ {n})

\* the attributes of a generated pool
PoolChoices ==
    [hashrate : {2, 3, 5, 8, 10}, maxblocksize : {500000, 1000000},
     minfeerate : {1000, 10000, SimInf}]

\* generated pools: the hashrates are proportions that sum to 1
GenPools ==
    UNION {{p \in [{PoolNames[i] : i \in 1..k} -> PoolChoices] :
                calc_totalhashrate(p, DOMAIN p) = 10} : k \in 1..MaxPools}

NameIdx(n) == CHOOSE i \in 1..Len(PoolNames) : PoolNames[i] = n

\* sorted(pools.items(), key=minfeerate)
RECURSIVE sortedByMinfeerate(_, _)
sortedByMinfeerate(pools, names) ==
    IF names = {} THEN <<>>
    ELSE LET first == CHOOSE n \in names : \A m \in names :
                         \/ pools[n].minfeerate < pools[m].minfeerate
                         \/ /\ pools[n].minfeerate = pools[m].minfeerate
                            /\ NameIdx(n) <= NameIdx(m)
         IN <<first>> \o sortedByMinfeerate(pools, names \ {first})

\* the steps of the capacity: one per distinct finite minfeerate, cumulative
RECURSIVE capLoop(_, _, _, _)
capLoop(pools, order, feerates, caps) ==
    IF order = <<>> THEN [feerates |-> feerates, caps |-> caps]
    ELSE LET pool == pools[Head(order)]
             last == Len(feerates)
             cap == pool.hashrate * pool.maxblocksize
         IN IF pool.minfeerate = SimInf
            THEN capLoop(pools, Tail(order), feerates, caps)
            ELSE IF pool.minfeerate = feerates[last]
                 THEN capLoop(pools, Tail(order), feerates,
                              [caps EXCEPT ![last] = @ + cap])
                 ELSE capLoop(pools, Tail(order), Append(feerates, pool.minfeerate),
                              Append(caps, caps[last] + cap))

ValueError == [raised |-> "ValueError"]

\* the capacity at each feerate counted over the pools strictly below it
get_capacity_exclusive(pools) ==
    IF DOMAIN pools = {} THEN ValueError
    ELSE LET r == capLoop(pools, sortedByMinfeerate(pools, DOMAIN pools), <<0>>, <<0>>)
         IN [feerates |-> r.feerates,
             caps |-> [i \in 1..Len(r.caps) |-> IF i = 1 THEN 0 ELSE r.caps[i - 1]]]

\* SimPools.get_capacity
get_capacity(pools) ==
    IF DOMAIN pools = {} THEN ValueError
    ELSE capLoop(pools, sortedByMinfeerate(pools, DOMAIN pools), <<0>>, <<0>>)

\* ref_txsample as the list it is
ref_txsample_list ==
    <<[feerate |-> 11000, size |-> 640],
      [feerate |-> 40000, size |-> 250],
      [feerate |-> 2000, size |-> 500]>>

\* ref_txrate = 1.1
ref_txrate == 11

\* the transactions of a generated txsample
TxChoices == [feerate : {1000, 11000}, size : {250, 500}]

\* TxSourceTests.feerates and the other increasing vectors over its values
RECURSIVE Increasing(_)
Increasing(S) ==
    IF S = {} THEN <<>>
    ELSE <<SetMin(S)>> \o Increasing(S \ {SetMin(S)})

FeerateVectors == {Increasing(S) : S \in (SUBSET {0, 2000, 10999, 20000}) \ {{}}}

\* bisect.bisect(a, x) of a sorted list: the insertion point right of x
bisect(a, x) == Cardinality({i \in 1..Len(a) : a[i] <= x})

\* TxSource.get_byterates
RECURSIVE byteratesLoop(_, _, _, _)
byteratesLoop(txsample, txrate, feerates, byterates) ==
    IF txsample = <<>> THEN byterates
    ELSE LET tx == Head(txsample)
             fee_idx == bisect(feerates, tx.feerate)
         IN byteratesLoop(Tail(txsample), txrate, feerates,
                IF fee_idx > 0
                THEN [byterates EXCEPT ![fee_idx] = @ + txrate * tx.size]
                ELSE byterates)

get_byterates(txsample, txrate, feerates) ==
    byteratesLoop(txsample, txrate, feerates, [i \in 1..Len(feerates) |-> 0])

\* Capacity(feerates, tx_byterates, cap_lower, cap_upper)
Capacity(feerates, tx_byterates, cap_lower) ==
    [feerates |-> feerates, tx_byterates |-> tx_byterates, cap_lower |-> cap_lower]

CapacityGrid == <<0, 1000, 10000, 20000>>

NonDecreasing(s) == \A i \in 1..(Len(s) - 1) : s[i] <= s[i + 1]

\* the Capacity objects of the generated Simuls: byterates 0, 9, 10 against
\* lower capacities 0, 10, 20
Capacities ==
    UNION {{Capacity(SubSeq(CapacityGrid, 1, k), t, c) :
                t \in [1..k -> {0, 9, 10}],
                c \in {d \in [1..k -> {0, 10, 20}] : NonDecreasing(d)}} :
           k \in 1..MaxGrid}

\* rate_ratio <= rate_ratio_thresh, the threshold in tenths
RatioAtMost(tx_byterate, cap_lower, thresh) == 10 * tx_byterate <= thresh * cap_lower

\* the loop of calc_stablefeerate without its break
RECURSIVE stableLoopNoBreak(_, _, _, _)
stableLoopNoBreak(cap, thresh, idx, stablefeerate) ==
    IF idx > Len(cap.feerates) THEN stablefeerate
    ELSE IF cap.cap_lower[idx] = 0
         THEN stableLoopNoBreak(cap, thresh, idx + 1, stablefeerate)
         ELSE IF RatioAtMost(cap.tx_byterates[idx], cap.cap_lower[idx], thresh)
              THEN stableLoopNoBreak(cap, thresh, idx + 1, cap.feerates[idx])
              ELSE stableLoopNoBreak(cap, thresh, idx + 1, stablefeerate)

calc_stablefeerate_nobreak(cap, rate_ratio_thresh) ==
    stableLoopNoBreak(cap, rate_ratio_thresh, 1, None)

RECURSIVE stableLoop(_, _, _)
stableLoop(cap, thresh, idx) ==
    IF idx > Len(cap.feerates) THEN None
    ELSE IF cap.cap_lower[idx] = 0
         THEN stableLoop(cap, thresh, idx + 1)
         ELSE IF RatioAtMost(cap.tx_byterates[idx], cap.cap_lower[idx], thresh)
              THEN cap.feerates[idx]
              ELSE stableLoop(cap, thresh, idx + 1)

\* Capacity.calc_stablefeerate
calc_stablefeerate(cap, rate_ratio_thresh) == stableLoop(cap, rate_ratio_thresh, 1)

RtIdle ==
    /\ rtPools = Unset
    /\ rtCaps = Unset
    /\ rtSample = <<>>
    /\ rtTxRate = 0
    /\ rtFeerates = <<>>
    /\ rtByterates = Unset
    /\ rtCap = Unset
    /\ rtThresh = 0
    /\ rtSimul = Unset
    /\ rtWaitFn = Unset
    /\ rtWaitCall = Unset
    /\ rtFeeclasses = <<>>
    /\ rtFcPc = "new"

\* one of: a SimPools, a TxSource and the feerates to rate it at, or the
\* Capacity a Simul is about to be built on
RtInit ==
    /\ rtCaps = Unset
    /\ rtByterates = Unset
    /\ rtSimul = Unset
    /\ rtWaitFn = Unset
    /\ rtWaitCall = Unset
    /\ rtFeeclasses = <<>>
    /\ rtFcPc = "new"
    /\ \/ /\ rtPools \in GenPools \cup
                {ref_pools, dup_pools, inf_pools, onlyinf_pools, empty_pools}
          /\ rtSample = <<>> /\ rtTxRate = 0 /\ rtFeerates = <<>>
          /\ rtCap = Unset /\ rtThresh = 0
       \/ /\ rtSample \in SeqsUpTo(TxChoices, MaxSample) \cup {ref_txsample_list}
          /\ rtTxRate \in {0, ref_txrate}
          /\ rtFeerates \in FeerateVectors
          /\ rtPools = Unset /\ rtCap = Unset /\ rtThresh = 0
       \/ /\ rtCap \in Capacities
          /\ rtThresh \in {5, 9}
          /\ rtPools = Unset
          /\ rtSample = <<>> /\ rtTxRate = 0 /\ rtFeerates = <<>>

GetCapacity ==
    /\ rtPools /= Unset
    /\ rtCaps = Unset
    /\ rtCaps' = get_capacity(rtPools)
    /\ UNCHANGED <<rtPools, rtSample, rtTxRate, rtFeerates, rtByterates, rtCap,
                   rtThresh, rtSimul,
                   rtWaitFn, rtWaitCall, rtFeeclasses, rtFcPc>>
    /\ UNCHANGED <<sfrVars, simVars, dbVars, stVars, nodeVars, tkVars, ssVars, poVars, prVars, epVars, ibVars, emVars>>

GetByterates ==
    /\ rtFeerates /= <<>>
    /\ rtByterates = Unset
    /\ rtByterates' = [byterates |-> get_byterates(rtSample, rtTxRate, rtFeerates)]
    /\ UNCHANGED <<rtPools, rtCaps, rtSample, rtTxRate, rtFeerates, rtCap,
                   rtThresh, rtSimul,
                   rtWaitFn, rtWaitCall, rtFeeclasses, rtFcPc>>
    /\ UNCHANGED <<sfrVars, simVars, dbVars, stVars, nodeVars, tkVars, ssVars, poVars, prVars, epVars, ibVars, emVars>>

\* Simul(pools, tx_source): the stable feerate of its Capacity, Unstable
\* when there is none
SimulNew ==
    /\ rtCap /= Unset
    /\ rtSimul = Unset
    /\ LET stablefeerate == calc_stablefeerate(rtCap, rtThresh)
       IN rtSimul' = [stablefeerate |-> stablefeerate,
                      feeratethresh |-> None,
                      pc |-> IF stablefeerate = None THEN "Unstable" ELSE "new"]
    /\ UNCHANGED <<rtPools, rtCaps, rtSample, rtTxRate, rtFeerates, rtByterates,
                   rtCap, rtThresh,
                   rtWaitFn, rtWaitCall, rtFeeclasses, rtFcPc>>
    /\ UNCHANGED <<sfrVars, simVars, dbVars, stVars, nodeVars, tkVars, ssVars, poVars, prVars, epVars, ibVars, emVars>>

\* Simul.run(feeratethresh): refused below the stable feerate
SimulRun ==
    /\ rtSimul /= Unset
    /\ rtSimul.pc = "new"
    /\ \E feeratethresh \in {rtCap.feerates[i] : i \in 1..Len(rtCap.feerates)} :
          rtSimul' = [rtSimul EXCEPT
                         !.feeratethresh = feeratethresh,
                         !.pc = IF feeratethresh < rtSimul.stablefeerate
                                THEN "Unstable" ELSE "running"]
    /\ UNCHANGED <<rtPools, rtCaps, rtSample, rtTxRate, rtFeerates, rtByterates,
                   rtCap, rtThresh,
                   rtWaitFn, rtWaitCall, rtFeeclasses, rtFcPc>>
    /\ UNCHANGED <<sfrVars, simVars, dbVars, stVars, nodeVars, tkVars, ssVars, poVars, prVars, epVars, ibVars, emVars>>

RatesNext == GetCapacity \/ GetByterates \/ SimulNew \/ SimulRun

(***************************************************************************)
(* app/steadystate.py: SteadyStateOnline.simulate, the loop over the       *)
(* blocks sim.run() yields. Block heights count from 0 (the statistics     *)
(* window closes on (block.height + 1) % window), realtime is the wall     *)
(* time since the run began.                                               *)
(***************************************************************************)
MaxIters == 3       \* miniters and a finite maxiters are 0..MaxIters
MaxTime == 2        \* maxtime is 0..MaxTime, realtime 0..maxtime+1

\* float("inf") as maxiters
IterInf == 1000

\* SteadyStateStats(): nothing computed yet; timestamp 0 makes it falsy
NoStats == [timestamp |-> 0, numiters |-> None, timespent |-> None, pools |-> 0]

\* the condition of the break in the loop of simulate, without miniters
simulate_break_anytime(height, realtime, miniters, maxiters, maxtime) ==
    height >= maxiters \/ realtime > maxtime

\* the condition of the break in the loop of simulate
simulate_break(height, realtime, miniters, maxiters, maxtime) ==
    height >= maxiters \/ (height >= miniters /\ realtime > maxtime)

SsIdle ==
    /\ ssMiniters = 0
    /\ ssMaxiters = 0
    /\ ssMaxtime = 0
    /\ ssPc = "idle"
    /\ ssStop = FALSE
    /\ ssHeight = 0
    /\ ssRealtime = 0
    /\ ssIters = 0
    /\ ssWork = NoStats
    /\ ssStats = NoStats
    /\ ssNextUpdate = 0
    /\ ssIo = 0

\* a worker about to call simulate: any miniters <= maxiters and maxtime
RunInit ==
    /\ ssMiniters \in 0..MaxIters
    /\ ssMaxiters \in (ssMiniters..MaxIters) \cup {IterInf}
    /\ ssMaxtime \in 0..MaxTime
    /\ ssPc = "simulate"
    /\ ssStop = FALSE
    /\ ssHeight = 0
    /\ ssRealtime = 0
    /\ ssIters = 0
    /\ ssWork = [NoStats EXCEPT !.timestamp = 1]
    /\ ssStats = NoStats
    /\ ssNextUpdate = 0
    /\ ssIo = 0

\* one turn of "for block, realtime in sim.run()": the stop check, the break
\* (and what follows the loop), or the block handed to qstats
SimulateBlock ==
    /\ ssPc = "simulate"
    /\ ssHeight <= MaxIters + 1
    /\ \E realtime \in ssRealtime..(ssMaxtime + 1) :
          /\ ssRealtime' = realtime
          /\ IF ssStop
             THEN /\ ssPc' = "StopIteration"
                  /\ UNCHANGED <<ssHeight, ssIters, ssWork>>
             ELSE IF simulate_break(ssHeight, realtime, ssMiniters, ssMaxiters, ssMaxtime)
             THEN /\ ssWork' = [ssWork EXCEPT !.timespent = realtime,
                                              !.numiters = ssHeight]
                  /\ ssPc' = "simulated"
                  /\ UNCHANGED <<ssHeight, ssIters>>
             ELSE /\ ssIters' = ssIters + 1
                  /\ ssHeight' = ssHeight + 1
                  /\ UNCHANGED <<ssPc, ssWork>>
    /\ UNCHANGED <<ssMiniters, ssMaxiters, ssMaxtime, ssStop, ssStats, ssNextUpdate, ssIo>>
    /\ UNCHANGED <<sfrVars, simVars, dbVars, stVars, nodeVars, tkVars, rtVars, poVars, prVars, epVars, ibVars, emVars>>

\* StoppableThread.stop, called from another thread
SsStop ==
    /\ ssPc /= "idle"
    /\ ~ssStop
    /\ ssStop' = TRUE
    /\ UNCHANGED <<ssMiniters, ssMaxiters, ssMaxtime, ssPc, ssHeight, ssRealtime,
                   ssIters, ssWork, ssStats, ssNextUpdate, ssIo>>
    /\ UNCHANGED <<sfrVars, simVars, dbVars, stVars, nodeVars, tkVars, rtVars, poVars, prVars, epVars, ibVars, emVars>>

RunNext == SimulateBlock \/ SsStop

(***************************************************************************)
(* app/pools.py and app/steadystate.py: the two worker threads. Each       *)
(* statement that reads the stop flag, fetches from the node or reads the  *)
(* block history is a step of its own, so that stop() and the other        *)
(* thread can fall between any two of them. Time advances in ticks; the    *)
(* pools worker's next_update is kept as the time left until it.           *)
(* StoppableThread.auto_restart, TxRateEstimator and WaitMeasure are not   *)
(* in the source tree: a raised update restarts run after its cooldown,    *)
(* and tx_source.start and calcwaits are one stop check and read each.     *)
(***************************************************************************)
Window == 1         \* self.window: the heights of a block range
MaxEstimates == 2   \* pools estimates published in a run of the model
UpdatePeriod == 1   \* self.update_period, in ticks

\* PoolsEstimator(): no pools, falsy
NoPe == [ver |-> 0, blockmap |-> {}, complete |-> TRUE]

\* the stop flag never read
stop_check_never(stopflag) == FALSE

\* "if stopflag and stopflag.is_set()" / "if self.is_stopped()"
stop_check(stopflag) == stopflag

PoIdle ==
    /\ poPc = "idle"
    /\ poStop = FALSE
    /\ poIdx = 0
    /\ poIo = 0
    /\ poWork = NoPe
    /\ poPe = NoPe
    /\ poNextIn = 0
    /\ poSince = 0
    /\ poFill = FALSE

\* PoolsEstimatorOnline.__init__ and the entry of run: no saved estimate, or
\* one loaded that is not outdated
PoInit ==
    /\ poPc = "waitfill"
    /\ poStop = FALSE
    /\ poIdx = 0
    /\ poIo = 0
    /\ poWork = NoPe
    /\ \/ poPe = NoPe /\ poNextIn = 0
       \/ poPe = [ver |-> 1, blockmap |-> 1..Window, complete |-> TRUE]
          /\ poNextIn \in 0..UpdatePeriod
    /\ poSince = UpdatePeriod
    /\ poFill \in BOOLEAN

\* run: "while not self.is_stopped() and windowfill < windowfillthresh:
\* self.sleep(10)" is left
PoWaitFill ==
    /\ poPc = "waitfill"
    /\ poStop \/ poFill
    /\ poPc' = "sleep"
    /\ UNCHANGED <<poStop, poIdx, poIo, poWork, poPe, poNextIn, poSince, poFill>>
    /\ UNCHANGED <<sfrVars, simVars, dbVars, stVars, nodeVars, tkVars, rtVars, ssVars, prVars, epVars, ibVars, emVars>>

\* run: self.sleep(max(0, self.next_update - time())) returns, then "while
\* not self.is_stopped()" either ends the loop or enters update()
PoLoop ==
    /\ poPc = "sleep"
    /\ poStop \/ poNextIn = 0
    /\ IF poStop
       THEN /\ poPc' = "stopped"
            /\ UNCHANGED <<poIo, poSince>>
       ELSE /\ poPe.ver < MaxEstimates
            /\ poPc' = "getblockcount"
            /\ poIo' = 0
            /\ poSince' = 0
    /\ UNCHANGED <<poStop, poIdx, poWork, poPe, poNextIn, poFill>>
    /\ UNCHANGED <<sfrVars, simVars, dbVars, stVars, nodeVars, tkVars, rtVars, ssVars, prVars, epVars, ibVars, emVars>>

\* update: currheight = proxy.getblockcount(); pe = deepcopy(self.pe). The
\* heights of the old blockmap are still in the new range, or the chain has
\* moved past them
PoGetBlockCount ==
    /\ poPc = "getblockcount"
    /\ poIo' = poIo + 1
    /\ \E blockmap \in {poPe.blockmap, {}} :
          poWork' = [ver |-> poPe.ver + 1, blockmap |-> blockmap, complete |-> FALSE]
    /\ poIdx' = 1
    /\ poPc' = "id_check"
    /\ UNCHANGED <<poStop, poPe, poNextIn, poSince, poFill>>
    /\ UNCHANGED <<sfrVars, simVars, dbVars, stVars, nodeVars, tkVars, rtVars, ssVars, prVars, epVars, ibVars, emVars>>

\* id_blocks: the head of the loop over the heights, up to the stop check
PoIdCheck ==
    /\ poPc = "id_check"
    /\ IF poIdx > Window
       THEN poPc' = "est_pool" /\ UNCHANGED poIdx
       ELSE IF poIdx \in poWork.blockmap
       THEN poIdx' = poIdx + 1 /\ UNCHANGED poPc
       ELSE IF stop_check(poStop)
       THEN poPc' = "StopIteration" /\ UNCHANGED poIdx
       ELSE poPc' = "id_fetch" /\ UNCHANGED poIdx
    /\ UNCHANGED <<poStop, poIo, poWork, poPe, poNextIn, poSince, poFill>>
    /\ UNCHANGED <<sfrVars, simVars, dbVars, stVars, nodeVars, tkVars, rtVars, ssVars, prVars, epVars, ibVars, emVars>>

\* id_blocks: get_coinbase_info(height) and the entry of the blockmap
PoIdFetch ==
    /\ poPc = "id_fetch"
    /\ poIo' = poIo + 1
    /\ poWork' = [poWork EXCEPT !.blockmap = @ \cup {poIdx}]
    /\ poIdx' = poIdx + 1
    /\ poPc' = "id_check"
    /\ UNCHANGED <<poStop, poPe, poNextIn, poSince, poFill>>
    /\ UNCHANGED <<sfrVars, simVars, dbVars, stVars, nodeVars, tkVars, rtVars, ssVars, prVars, epVars, ibVars, emVars>>

\* estimate_pools: the stop check before the pool of the blockmap
PoEstPool ==
    /\ poPc = "est_pool"
    /\ IF poWork.blockmap = {}
       THEN poPc' = "interval" /\ UNCHANGED poIdx
       ELSE IF stop_check(poStop)
       THEN poPc' = "StopIteration" /\ UNCHANGED poIdx
       ELSE poPc' = "est_check" /\ poIdx' = 1
    /\ UNCHANGED <<poStop, poIo, poWork, poPe, poNextIn, poSince, poFill>>
    /\ UNCHANGED <<sfrVars, simVars, dbVars, stVars, nodeVars, tkVars, rtVars, ssVars, prVars, epVars, ibVars, emVars>>

\* estimate_params: the head of the loop over the blockheights and its stop
\* check
PoEstCheck ==
    /\ poPc = "est_check"
    /\ IF poIdx > Window
       THEN poPc' = "interval"
       ELSE IF stop_check(poStop)
       THEN poPc' = "StopIteration"
       ELSE poPc' = "est_read"
    /\ UNCHANGED <<poStop, poIdx, poIo, poWork, poPe, poNextIn, poSince, poFill>>
    /\ UNCHANGED <<sfrVars, simVars, dbVars, stVars, nodeVars, tkVars, rtVars, ssVars, prVars, epVars, ibVars, emVars>>

\* estimate_params: MemBlock.read(height)
PoEstRead ==
    /\ poPc = "est_read"
    /\ poIo' = poIo + 1
    /\ poIdx' = poIdx + 1
    /\ poPc' = "est_check"
    /\ UNCHANGED <<poStop, poWork, poPe, poNextIn, poSince, poFill>>
    /\ UNCHANGED <<sfrVars, simVars, dbVars, stVars, nodeVars, tkVars, rtVars, ssVars, prVars, epVars, ibVars, emVars>>

\* start: self.update(); estimate_block_interval fetches the timestamps of
\* the two ends of the range, without a stop check
PoInterval ==
    /\ poPc = "interval"
    /\ poIo' = poIo + 2
    /\ poWork' = [poWork EXCEPT !.complete = TRUE]
    /\ poPc' = "publish"
    /\ UNCHANGED <<poStop, poIdx, poPe, poNextIn, poSince, poFill>>
    /\ UNCHANGED <<sfrVars, simVars, dbVars, stVars, nodeVars, tkVars, rtVars, ssVars, prVars, epVars, ibVars, emVars>>

\* update: self.pe = pe (under pools_lock); self.next_update = pe.timestamp +
\* self.update_period; save_pe
PoPublish ==
    /\ poPc = "publish"
    /\ poPe' = poWork
    /\ poNextIn' = UpdatePeriod
    /\ poPc' = "sleep"
    /\ UNCHANGED <<poStop, poIdx, poIo, poWork, poSince, poFill>>
    /\ UNCHANGED <<sfrVars, simVars, dbVars, stVars, nodeVars, tkVars, rtVars, ssVars, prVars, epVars, ibVars, emVars>>

\* run: "except StopIteration: pass" and the finally clause
PoStopIteration ==
    /\ poPc = "StopIteration"
    /\ poPc' = "stopped"
    /\ UNCHANGED <<poStop, poIdx, poIo, poWork, poPe, poNextIn, poSince, poFill>>
    /\ UNCHANGED <<sfrVars, simVars, dbVars, stVars, nodeVars, tkVars, rtVars, ssVars, prVars, epVars, ibVars, emVars>>

\* a node fetch or a history read of update raises
PoRaise ==
    /\ poPc \in {"getblockcount", "id_fetch", "est_read", "interval"}
    /\ poPc' = "raised"
    /\ UNCHANGED <<poStop, poIdx, poIo, poWork, poPe, poNextIn, poSince, poFill>>
    /\ UNCHANGED <<sfrVars, simVars, dbVars, stVars, nodeVars, tkVars, rtVars, ssVars, prVars, epVars, ibVars, emVars>>

\* auto_restart(60): run is entered again (the cooldown is short of a tick)
PoRestart ==
    /\ poPc = "raised"
    /\ poPc' = IF poStop THEN "stopped" ELSE "waitfill"
    /\ UNCHANGED <<poStop, poIdx, poIo, poWork, poPe, poNextIn, poSince, poFill>>
    /\ UNCHANGED <<sfrVars, simVars, dbVars, stVars, nodeVars, tkVars, rtVars, ssVars, prVars, epVars, ibVars, emVars>>

\* StoppableThread.stop, called from another thread
PoStop ==
    /\ poPc \notin {"idle", "stopped"}
    /\ ~poStop
    /\ poStop' = TRUE
    /\ UNCHANGED <<poPc, poIdx, poIo, poWork, poPe, poNextIn, poSince, poFill>>
    /\ UNCHANGED <<sfrVars, simVars, dbVars, stVars, nodeVars, tkVars, rtVars, ssVars, prVars, epVars, ibVars, emVars>>

\* a tick of time()
Tick ==
    /\ poPc \notin {"idle", "stopped"}
    /\ poNextIn > 0 \/ poSince < UpdatePeriod
    /\ poNextIn' = IF poNextIn > 0 THEN poNextIn - 1 ELSE 0
    /\ poSince' = IF poSince < UpdatePeriod THEN poSince + 1 ELSE poSince
    /\ UNCHANGED <<poPc, poStop, poIdx, poIo, poWork, poPe, poFill>>
    /\ UNCHANGED <<sfrVars, simVars, dbVars, stVars, nodeVars, tkVars, rtVars, ssVars, prVars, epVars, ibVars, emVars>>

\* the history store gains a MemBlock of the window, or the chain grows by
\* a block the tracker did not record
FillChange ==
    /\ poPc \notin {"idle", "stopped"}
    /\ poFill' = ~poFill
    /\ UNCHANGED <<poPc, poStop, poIdx, poIo, poWork, poPe, poNextIn, poSince>>
    /\ UNCHANGED <<sfrVars, simVars, dbVars, stVars, nodeVars, tkVars, rtVars, ssVars, prVars, epVars, ibVars, emVars>>

PoolsNext ==
    \/ PoWaitFill \/ PoLoop \/ PoGetBlockCount \/ PoIdCheck \/ PoIdFetch
    \/ PoEstPool \/ PoEstCheck \/ PoEstRead \/ PoInterval \/ PoPublish
    \/ PoStopIteration \/ PoRaise \/ PoRestart \/ PoStop \/ Tick \/ FillChange

\* SteadyStateOnline.__init__ and the entry of run, with the iteration
\* limits of a short run
SsInit ==
    /\ ssMiniters = 0
    /\ ssMaxiters = 1
    /\ ssMaxtime = 0
    /\ ssPc = "waitpe"
    /\ ssStop = FALSE
    /\ ssHeight = 0
    /\ ssRealtime = 0
    /\ ssIters = 0
    /\ ssWork = NoStats
    /\ ssStats = NoStats
    /\ ssNextUpdate = 0
    /\ ssIo = 0

\* run: the first sleep, and "while not self.peo.pe and not
\* self.is_stopped(): self.sleep(10)" is left
SsWaitPe ==
    /\ ssPc = "waitpe"
    /\ ssStop \/ poPe.ver /= 0
    /\ ssPc' = "sleep"
    /\ UNCHANGED <<ssMiniters, ssMaxiters, ssMaxtime, ssStop, ssHeight, ssRealtime,
                   ssIters, ssWork, ssStats, ssNextUpdate, ssIo>>
    /\ UNCHANGED <<sfrVars, simVars, dbVars, stVars, nodeVars, tkVars, rtVars, poVars, prVars, epVars, ibVars, emVars>>

\* run: the sleep until next_update returns, then "while not
\* self.is_stopped()" either ends the loop or enters update(): stats =
\* deepcopy(self.stats); stats.timestamp = time()
SsLoop ==
    /\ ssPc = "sleep"
    /\ IF ssStop
       THEN /\ ssPc' = "stopped"
            /\ UNCHANGED <<ssWork, ssIo>>
       ELSE /\ ssPc' = "getblockcount"
            /\ ssWork' = [ssStats EXCEPT !.timestamp = 1]
            /\ ssIo' = 0
    /\ UNCHANGED <<ssMiniters, ssMaxiters, ssMaxtime, ssStop, ssHeight, ssRealtime,
                   ssIters, ssStats, ssNextUpdate>>
    /\ UNCHANGED <<sfrVars, simVars, dbVars, stVars, nodeVars, tkVars, rtVars, poVars, prVars, epVars, ibVars, emVars>>

\* update: currheight = proxy.getblockcount()
SsGetBlockCount ==
    /\ ssPc = "getblockcount"
    /\ ssIo' = ssIo + 1
    /\ ssPc' = "txsource"
    /\ UNCHANGED <<ssMiniters, ssMaxiters, ssMaxtime, ssStop, ssHeight, ssRealtime,
                   ssIters, ssWork, ssStats, ssNextUpdate>>
    /\ UNCHANGED <<sfrVars, simVars, dbVars, stVars, nodeVars, tkVars, rtVars, poVars, prVars, epVars, ibVars, emVars>>

\* update: tx_source.start(blockrangetuple, stopflag)
SsTxSource ==
    /\ ssPc = "txsource"
    /\ IF stop_check(ssStop)
       THEN ssPc' = "StopIteration" /\ UNCHANGED ssIo
       ELSE ssPc' = "Simul" /\ ssIo' = ssIo + 1
    /\ UNCHANGED <<ssMiniters, ssMaxiters, ssMaxtime, ssStop, ssHeight, ssRealtime,
                   ssIters, ssWork, ssStats, ssNextUpdate>>
    /\ UNCHANGED <<sfrVars, simVars, dbVars, stVars, nodeVars, tkVars, rtVars, poVars, prVars, epVars, ibVars, emVars>>

\* the estimate the worker began with, whatever has been published since
deepcopy_first(pe) == IF pe.ver = 0 THEN 0 ELSE 1

\* deepcopy(self.peo.pe): the estimate published last, by its version
deepcopy_pe(pe) == pe.ver

\* update: pools = deepcopy(self.peo.pe); assert pools; sim = Simul(pools,
\* tx_source), which raises when no feerate is stable; get_feeclasses
SsSimul ==
    /\ ssPc = "Simul"
    /\ \E unstable \in BOOLEAN :
          IF deepcopy_pe(poPe) = 0 \/ unstable
          THEN /\ ssPc' = "raised"
               /\ UNCHANGED <<ssWork, ssHeight, ssRealtime, ssIters>>
          ELSE /\ ssPc' = "simulate"
               /\ ssWork' = [ssWork EXCEPT !.pools = deepcopy_pe(poPe)]
               /\ ssHeight' = 0
               /\ ssRealtime' = 0
               /\ ssIters' = 0
    /\ UNCHANGED <<ssMiniters, ssMaxiters, ssMaxtime, ssStop, ssStats, ssNextUpdate, ssIo>>
    /\ UNCHANGED <<sfrVars, simVars, dbVars, stVars, nodeVars, tkVars, rtVars, poVars, prVars, epVars, ibVars, emVars>>

\* update: simulate has returned (its locals are gone);
\* stats.waitmeasure.calcwaits(blockrangetuple, stopflag)
SsCalcWaits ==
    /\ ssPc = "simulated"
    /\ poPc /= "idle"
    /\ IF stop_check(ssStop)
       THEN ssPc' = "StopIteration" /\ UNCHANGED ssIo
       ELSE ssPc' = "publish" /\ ssIo' = ssIo + 1
    /\ ssHeight' = 0
    /\ ssRealtime' = 0
    /\ ssIters' = 0
    /\ UNCHANGED <<ssMiniters, ssMaxiters, ssMaxtime, ssStop, ssWork, ssStats, ssNextUpdate>>
    /\ UNCHANGED <<sfrVars, simVars, dbVars, stVars, nodeVars, tkVars, rtVars, poVars, prVars, epVars, ibVars, emVars>>

\* update: self.stats = stats (under stats_lock); self.next_update =
\* stats.timestamp + self.update_period; save_stats
SsPublish ==
    /\ ssPc = "publish"
    /\ ssStats' = ssWork
    /\ ssNextUpdate' = ssWork.timestamp
    /\ ssPc' = "sleep"
    /\ UNCHANGED <<ssMiniters, ssMaxiters, ssMaxtime, ssStop, ssHeight, ssRealtime,
                   ssIters, ssWork, ssIo>>
    /\ UNCHANGED <<sfrVars, simVars, dbVars, stVars, nodeVars, tkVars, rtVars, poVars, prVars, epVars, ibVars, emVars>>

\* run: "except StopIteration: pass" and the finally clause
SsStopIteration ==
    /\ ssPc = "StopIteration"
    /\ poPc /= "idle"
    /\ ssPc' = "stopped"
    /\ UNCHANGED <<ssMiniters, ssMaxiters, ssMaxtime, ssStop, ssHeight, ssRealtime,
                   ssIters, ssWork, ssStats, ssNextUpdate, ssIo>>
    /\ UNCHANGED <<sfrVars, simVars, dbVars, stVars, nodeVars, tkVars, rtVars, poVars, prVars, epVars, ibVars, emVars>>

\* the node fetch of update raises
SsRaise ==
    /\ ssPc = "getblockcount"
    /\ ssPc' = "raised"
    /\ UNCHANGED <<ssMiniters, ssMaxiters, ssMaxtime, ssStop, ssHeight, ssRealtime,
                   ssIters, ssWork, ssStats, ssNextUpdate, ssIo>>
    /\ UNCHANGED <<sfrVars, simVars, dbVars, stVars, nodeVars, tkVars, rtVars, poVars, prVars, epVars, ibVars, emVars>>

\* auto_restart(60): run is entered again
SsRestart ==
    /\ ssPc = "raised"
    /\ ssPc' = IF ssStop THEN "stopped" ELSE "waitpe"
    /\ UNCHANGED <<ssMiniters, ssMaxiters, ssMaxtime, ssStop, ssHeight, ssRealtime,
                   ssIters, ssWork, ssStats, ssNextUpdate, ssIo>>
    /\ UNCHANGED <<sfrVars, simVars, dbVars, stVars, nodeVars, tkVars, rtVars, poVars, prVars, epVars, ibVars, emVars>>

SteadyNext ==
    \/ SsWaitPe \/ SsLoop \/ SsGetBlockCount \/ SsTxSource \/ SsSimul
    \/ SimulateBlock \/ SsCalcWaits \/ SsPublish \/ SsStopIteration \/ SsRaise
    \/ SsRestart \/ SsStop

WorkersNext == PoolsNext \/ SteadyNext

\* the steps the steady-state thread takes when it is scheduled
SsThread ==
    \/ SsWaitPe \/ SsLoop \/ SsGetBlockCount \/ SsTxSource \/ SsSimul
    \/ SimulateBlock \/ SsCalcWaits \/ SsPublish \/ SsStopIteration \/ SsRestart

(***************************************************************************)
(* app/simonline.py: the prediction of a SimOnline. update runs on the     *)
(* tracker thread, process_blocks on the block worker, update_predicts on  *)
(* a thread of its own for every poll, get_predictstats on the thread of   *)
(* its caller. feemodel/app/predict.py is not in the source tree:          *)
(* Prediction is modelled from the specification, as the map of the        *)
(* predictions and the scores, one object changed in place.                *)
(***************************************************************************)
MaxPrTx == 2        \* txids are 1..MaxPrTx
MaxPrHeight == 2    \* blocks the node finds
MaxPrThreads == 2   \* update_predicts threads waiting for the lock at a time

PrTxids == 1..MaxPrTx

\* the entries of the node's mempool
PrMempool == {t \in PrTxids : prNode[t] = "mempool"}

\* self.prediction as get_stats sees it
PrValue == [predicts |-> prPredicts, scores |-> prScores]

NoJob == [txs |-> {}, phase |-> "none"]

PrIdle ==
    /\ prNode = [t \in PrTxids |-> "unseen"]
    /\ prHeight = 0
    /\ prState = [height |-> 0, entries |-> {}]
    /\ prQueue = <<>>
    /\ prThreads = {}
    /\ prLock = "idle"
    /\ prJob = NoJob
    /\ prPredicts = {}
    /\ prScores = [t \in PrTxids |-> 0]
    /\ prLife = [t \in PrTxids |-> "Untracked"]
    /\ prBefore = Unset
    /\ prRead = Unset

\* SimOnline.__init__ (no saved prediction) and the first get_mempool_state
\* of run, on an empty mempool
PrInit ==
    /\ prNode = [t \in PrTxids |-> "unseen"]
    /\ prHeight = 0
    /\ prState = [height |-> 0, entries |-> {}]
    /\ prQueue = <<>>
    /\ prThreads = {}
    /\ prLock = "free"
    /\ prJob = NoJob
    /\ prPredicts = {}
    /\ prScores = [t \in PrTxids |-> 0]
    /\ prLife = [t \in PrTxids |-> "Untracked"]
    /\ prBefore = Unset
    /\ prRead = Unset

\* the node accepts a transaction into its mempool
PrAccept ==
    /\ prLock /= "idle"
    /\ \E t \in PrTxids :
          /\ prNode[t] = "unseen"
          /\ prNode' = [prNode EXCEPT ![t] = "mempool"]
    /\ UNCHANGED <<prHeight, prState, prQueue, prThreads, prLock, prJob, prPredicts,
                   prScores, prLife, prBefore, prRead>>
    /\ UNCHANGED <<sfrVars, simVars, dbVars, stVars, nodeVars, tkVars, rtVars, ssVars, poVars, epVars, ibVars, emVars>>

\* the node learns of a block that confirms some of its mempool
PrBlock ==
    /\ prLock /= "idle"
    /\ prHeight < MaxPrHeight
    /\ prHeight' = prHeight + 1
    /\ \E txs \in SUBSET PrMempool :
          prNode' = [t \in PrTxids |-> IF t \in txs THEN "confirmed" ELSE prNode[t]]
    /\ UNCHANGED <<prState, prQueue, prThreads, prLock, prJob, prPredicts,
                   prScores, prLife, prBefore, prRead>>
    /\ UNCHANGED <<sfrVars, simVars, dbVars, stVars, nodeVars, tkVars, rtVars, ssVars, poVars, epVars, ibVars, emVars>>

\* the node drops a transaction from its mempool without a confirmation
PrDrop ==
    /\ prLock /= "idle"
    /\ \E t \in PrMempool :
          prNode' = [prNode EXCEPT ![t] = "dropped"]
    /\ UNCHANGED <<prHeight, prState, prQueue, prThreads, prLock, prJob, prPredicts,
                   prScores, prLife, prBefore, prRead>>
    /\ UNCHANGED <<sfrVars, simVars, dbVars, stVars, nodeVars, tkVars, rtVars, ssVars, poVars, epVars, ibVars, emVars>>

\* SimOnline.update: TxMempool.update puts (self.state, newstate) to the
\* block worker when the height has grown (the job is kept as the entries
\* of the old state that the new blocks include); then a thread is started
\* on update_predicts with the entries of the new state
PrUpdate ==
    /\ prLock /= "idle"
    /\ LET newstate == [height |-> prHeight, entries |-> PrMempool]
           inblock == {t \in prState.entries : prNode[t] = "confirmed"}
       IN /\ prQueue' = IF newstate.height > prState.height
                          THEN Append(prQueue, inblock)
                          ELSE prQueue
          /\ prState' = newstate
          /\ prThreads' = prThreads \cup {newstate.entries}
    /\ Cardinality(prThreads') <= MaxPrThreads
    /\ UNCHANGED <<prNode, prHeight, prLock, prJob, prPredicts, prScores, prLife,
                   prBefore, prRead>>
    /\ UNCHANGED <<sfrVars, simVars, dbVars, stVars, nodeVars, tkVars, rtVars, ssVars, poVars, epVars, ibVars, emVars>>

\* SimOnline.process_blocks on the block worker: the memblocks of the oldest
\* job are recorded, then "with self.predict_lock" is entered
PrProcessBlocks ==
    /\ prLock = "free"
    /\ prQueue /= <<>>
    /\ prLock' = "process_blocks"
    /\ prJob' = [txs |-> Head(prQueue), phase |-> "score"]
    /\ prQueue' = Tail(prQueue)
    /\ prBefore' = [value |-> PrValue, txs |-> Head(prQueue)]
    /\ UNCHANGED <<prNode, prHeight, prState, prThreads, prPredicts, prScores, prLife,
                   prRead>>
    /\ UNCHANGED <<sfrVars, simVars, dbVars, stVars, nodeVars, tkVars, rtVars, ssVars, poVars, epVars, ibVars, emVars>>

\* Prediction.process_blocks: one confirmed transaction; one that has a
\* prediction is scored and its prediction removed
PrScore ==
    /\ prLock = "process_blocks"
    /\ \E t \in prJob.txs :
          /\ prJob' = [prJob EXCEPT !.txs = @ \ {t}]
          /\ IF t \in prPredicts
             THEN /\ prScores' = [prScores EXCEPT ![t] = @ + 1]
                  /\ prPredicts' = prPredicts \ {t}
                  /\ prLife' = [prLife EXCEPT ![t] = "Confirmed"]
             ELSE UNCHANGED <<prScores, prPredicts, prLife>>
    /\ UNCHANGED <<prNode, prHeight, prState, prQueue, prThreads, prLock, prBefore, prRead>>
    /\ UNCHANGED <<sfrVars, simVars, dbVars, stVars, nodeVars, tkVars, rtVars, ssVars, poVars, epVars, ibVars, emVars>>

\* SimOnline.process_blocks: self.save_predicts() and the end of the with
\* block
PrSave ==
    /\ prLock = "process_blocks"
    /\ prJob.txs = {}
    /\ prLock' = "free"
    /\ prJob' = NoJob
    /\ prBefore' = Unset
    /\ UNCHANGED <<prNode, prHeight, prState, prQueue, prThreads, prPredicts, prScores,
                   prLife, prRead>>
    /\ UNCHANGED <<sfrVars, simVars, dbVars, stVars, nodeVars, tkVars, rtVars, ssVars, poVars, epVars, ibVars, emVars>>

\* SimOnline.update_predicts on one of the threads started: "with
\* self.predict_lock" is entered; which thread gets the lock is not ordered
PrUpdatePredicts ==
    /\ prLock = "free"
    /\ \E entries \in prThreads :
          /\ prThreads' = prThreads \ {entries}
          /\ prJob' = [txs |-> entries, phase |-> "assign"]
          /\ prBefore' = [value |-> PrValue, txs |-> entries]
    /\ prLock' = "update_predicts"
    /\ UNCHANGED <<prNode, prHeight, prState, prQueue, prPredicts, prScores, prLife,
                   prRead>>
    /\ UNCHANGED <<sfrVars, simVars, dbVars, stVars, nodeVars, tkVars, rtVars, ssVars, poVars, epVars, ibVars, emVars>>

\* Prediction.update_predictions: every entry not yet tracked is assigned a
\* prediction
PrAssign ==
    /\ prLock = "update_predicts"
    /\ prJob.phase = "assign"
    /\ prPredicts' = prPredicts \cup prJob.txs
    /\ prLife' = [t \in PrTxids |->
                     IF t \in prJob.txs \ prPredicts THEN "Tracked" ELSE prLife[t]]
    /\ prJob' = [prJob EXCEPT !.phase = "discard"]
    /\ UNCHANGED <<prNode, prHeight, prState, prQueue, prThreads, prLock, prScores,
                   prBefore, prRead>>
    /\ UNCHANGED <<sfrVars, simVars, dbVars, stVars, nodeVars, tkVars, rtVars, ssVars, poVars, epVars, ibVars, emVars>>

\* Prediction.update_predictions: every prediction of a transaction that is
\* not among the entries is discarded; the with block ends
PrDiscard ==
    /\ prLock = "update_predicts"
    /\ prJob.phase = "discard"
    /\ prPredicts' = prPredicts \cap prJob.txs
    /\ prLife' = [t \in PrTxids |->
                     IF t \in prPredicts \ prJob.txs THEN "Evicted" ELSE prLife[t]]
    /\ prLock' = "free"
    /\ prJob' = NoJob
    /\ prBefore' = Unset
    /\ UNCHANGED <<prNode, prHeight, prState, prQueue, prThreads, prScores, prRead>>
    /\ UNCHANGED <<sfrVars, simVars, dbVars, stVars, nodeVars, tkVars, rtVars, ssVars, poVars, epVars, ibVars, emVars>>

\* SimOnline.get_predictstats: self.prediction.get_stats(), without the lock
PrGetPredictstats ==
    /\ prLock /= "idle"
    /\ prRead' = PrValue
    /\ UNCHANGED <<prNode, prHeight, prState, prQueue, prThreads, prLock, prJob,
                   prPredicts, prScores, prLife, prBefore>>
    /\ UNCHANGED <<sfrVars, simVars, dbVars, stVars, nodeVars, tkVars, rtVars, ssVars, poVars, epVars, ibVars, emVars>>

PredictNext ==
    \/ PrAccept \/ PrBlock \/ PrDrop \/ PrUpdate \/ PrProcessBlocks \/ PrScore
    \/ PrSave \/ PrUpdatePredicts \/ PrAssign \/ PrDiscard \/ PrGetPredictstats

(***************************************************************************)
(* estimate/pools.py: PoolEstimate.estimate_params over the blocks of one  *)
(* pool. A block is its size, the average size of its transactions in the  *)
(* block and whether tx_preprocess leaves any transaction of it; a block    *)
(* is named by its place in self.blockheights.                              *)
(***************************************************************************)
MaxEpBlocks == 3    \* len(self.blockheights) is 1..MaxEpBlocks
MaxEpSize == 3      \* block.size is 1..MaxEpSize

\* MemBlock.read(height) returns None
NoEpBlock == [found |-> FALSE, size |-> 0, avgtxsize |-> 0, hastxs |-> FALSE]

\* the MemBlocks a height can have: the transactions in the block are not
\* larger than the block
EpMemBlocks ==
    {[found |-> TRUE, size |-> s, avgtxsize |-> a, hastxs |-> h] :
        s \in 1..MaxEpSize, a \in 0..MaxEpSize, h \in BOOLEAN}

EpBlockChoices == {b \in EpMemBlocks : b.avgtxsize <= b.size} \cup {NoEpBlock}

\* _addblock: "if self.maxblocksize - block.size > block.avgtxsize"
addblock_feelimited(block, maxblocksize) == maxblocksize - block.size > block.avgtxsize

\* min(deferredblocks, key=lambda block: block.size): the first of the
\* smallest
RECURSIVE min_bysize(_, _, _)
min_bysize(blocks, deferred, i) ==
    IF i = 1
    THEN deferred[1]
    ELSE LET m == min_bysize(blocks, deferred, i - 1)
         IN IF blocks[deferred[i]].size < blocks[m].size THEN deferred[i] ELSE m

\* self.stats = None
NoEpStats == [sfr |-> 0, bias |-> 0, mean |-> 0, std |-> 0, abovekn |-> <<0, 0>>, belowkn |-> <<0, 0>>]

\* what calc_stranding_feerate(txs) returns for a list with transactions, the
\* numbers standing for whatever the estimator finds
EpStatsOf ==
    {[sfr |-> 1, bias |-> 0, mean |-> 1, std |-> 0, abovekn |-> <<1, 1>>, belowkn |-> <<0, 1>>]}

\* the stats estimate_params sets when txs is empty
novalid_stats ==
    [sfr |-> Inf, bias |-> Inf, mean |-> Inf, std |-> Inf,
     abovekn |-> <<0 - 1, 0 - 1>>, belowkn |-> <<0 - 1, 0 - 1>>]

\* calc_stranding_feerate called whatever txs holds: it fails on an empty list
estimate_unguarded(txs, stats, minfeerate) ==
    IF txs /= {}
    THEN [pc |-> "done", stats |-> stats, minfeerate |-> stats.sfr]
    ELSE [pc |-> "raised", stats |-> NoEpStats, minfeerate |-> minfeerate]

\* the end of estimate_params: "if txs: ... else: ..."
estimate_result(txs, stats, minfeerate) ==
    IF txs /= {}
    THEN [pc |-> "done", stats |-> stats, minfeerate |-> stats.sfr]
    ELSE [pc |-> "done", stats |-> novalid_stats, minfeerate |-> minfeerate]

\* the MemBlocks calc_stranding_feerate is called on: MemBlock() (entries None)
\* and blocks with entries, of which tx_preprocess(self) leaves some or none
EpSfrBlocks == {[entries |-> e, hastxs |-> h] : e, h \in BOOLEAN} \ {[entries |-> FALSE, hastxs |-> TRUE]}

NoBlockSfr == [called |-> FALSE, block |-> [entries |-> FALSE, hastxs |-> FALSE], result |-> "unset"]

\* a block that raises for want of valid transactions
memblock_sfr_strict(block) ==
    IF ~block.entries \/ ~block.hastxs THEN "ValueError" ELSE "stats"

\* MemBlock.calc_stranding_feerate: "ValueError", "None" or the stats
memblock_sfr(block) ==
    IF ~block.entries THEN "ValueError"
    ELSE IF block.hastxs THEN "stats"
    ELSE "None"

EpIdle ==
    /\ epBlocks = <<>>
    /\ epPc = "idle"
    /\ epIdx = 0
    /\ epMaxblocksize = 0
    /\ epDeferred = <<>>
    /\ epFeelimited = <<>>
    /\ epSizelimited = <<>>
    /\ epTxs = {}
    /\ epStats = NoEpStats
    /\ epMinfeerate = Inf
    /\ epBlockSfr = NoBlockSfr

\* one of: PoolEstimate.__init__ (maxblocksize 0, minfeerate inf, no stats) and
\* the head of estimate_params, or a MemBlock whose calc_stranding_feerate is
\* about to be called
EpInit ==
    /\ \/ /\ \E n \in 1..MaxEpBlocks : epBlocks \in [1..n -> EpBlockChoices]
          /\ epPc = "loop"
          /\ epBlockSfr = NoBlockSfr
       \/ /\ epBlocks = <<>>
          /\ epPc = "memblock"
          /\ \E block \in EpSfrBlocks :
                epBlockSfr = [called |-> FALSE, block |-> block, result |-> "unset"]
    /\ epIdx = 1
    /\ epMaxblocksize = 0
    /\ epDeferred = <<>>
    /\ epFeelimited = <<>>
    /\ epSizelimited = <<>>
    /\ epTxs = {}
    /\ epStats = NoEpStats
    /\ epMinfeerate = Inf

\* _addblock(block, txs) for the block at place i
EpAddblock(i) ==
    IF addblock_feelimited(epBlocks[i], epMaxblocksize)
    THEN /\ epFeelimited' = Append(epFeelimited, i)
         /\ epTxs' = IF epBlocks[i].hastxs THEN epTxs \cup {i} ELSE epTxs
         /\ UNCHANGED epSizelimited
    ELSE /\ epSizelimited' = Append(epSizelimited, i)
         /\ UNCHANGED <<epFeelimited, epTxs>>

\* estimate_params: one pass of "for height in self.blockheights"
EpRead ==
    /\ epPc = "loop"
    /\ epIdx <= Len(epBlocks)
    /\ epIdx' = epIdx + 1
    /\ LET block == epBlocks[epIdx]
       IN IF ~block.found
          THEN UNCHANGED <<epMaxblocksize, epDeferred, epFeelimited, epSizelimited, epTxs>>
          ELSE IF block.size > epMaxblocksize
          THEN /\ epMaxblocksize' = block.size
               /\ epDeferred' = Append(epDeferred, epIdx)
               /\ UNCHANGED <<epFeelimited, epSizelimited, epTxs>>
          ELSE /\ EpAddblock(epIdx)
               /\ UNCHANGED <<epMaxblocksize, epDeferred>>
    /\ UNCHANGED <<epBlocks, epPc, epStats, epMinfeerate, epBlockSfr>>
    /\ UNCHANGED <<sfrVars, simVars, dbVars, stVars, nodeVars, tkVars, rtVars, ssVars, poVars, prVars, ibVars, emVars>>

\* estimate_params: the first loop is done
EpLoopEnd ==
    /\ epPc = "loop"
    /\ epIdx > Len(epBlocks)
    /\ epPc' = "deferred"
    /\ epIdx' = 1
    /\ UNCHANGED <<epBlocks, epMaxblocksize, epDeferred, epFeelimited, epSizelimited, epTxs>>
    /\ UNCHANGED <<epStats, epMinfeerate, epBlockSfr>>
    /\ UNCHANGED <<sfrVars, simVars, dbVars, stVars, nodeVars, tkVars, rtVars, ssVars, poVars, prVars, ibVars, emVars>>

\* estimate_params: one pass of "for block in deferredblocks"
EpDeferredBlock ==
    /\ epPc = "deferred"
    /\ epIdx <= Len(epDeferred)
    /\ epIdx' = epIdx + 1
    /\ EpAddblock(epDeferred[epIdx])
    /\ UNCHANGED <<epBlocks, epPc, epMaxblocksize, epDeferred>>
    /\ UNCHANGED <<epStats, epMinfeerate, epBlockSfr>>
    /\ UNCHANGED <<sfrVars, simVars, dbVars, stVars, nodeVars, tkVars, rtVars, ssVars, poVars, prVars, ibVars, emVars>>

\* estimate_params: "if not txs and deferredblocks": the transactions of the
\* smallest deferred block are taken; then the stats are set from txs
EpFallback ==
    /\ epPc = "deferred"
    /\ epIdx > Len(epDeferred)
    /\ IF epTxs = {} /\ epDeferred /= <<>>
       THEN LET block == min_bysize(epBlocks, epDeferred, Len(epDeferred))
            IN epTxs' = IF epBlocks[block].hastxs THEN {block} ELSE {}
       ELSE UNCHANGED epTxs
    /\ \E stats \in EpStatsOf :
        LET r == estimate_result(epTxs', stats, epMinfeerate)
        IN  /\ epPc' = r.pc
            /\ epStats' = r.stats
            /\ epMinfeerate' = r.minfeerate
    /\ UNCHANGED <<epBlocks, epIdx, epMaxblocksize, epDeferred, epFeelimited, epSizelimited,
                   epBlockSfr>>
    /\ UNCHANGED <<sfrVars, simVars, dbVars, stVars, nodeVars, tkVars, rtVars, ssVars, poVars, prVars, ibVars, emVars>>

\* block.calc_stranding_feerate() on a MemBlock, as process_blocks calls it
EpMemBlockSfr ==
    /\ epPc = "memblock"
    /\ epPc' = "returned"
    /\ epBlockSfr' = [epBlockSfr EXCEPT !.called = TRUE,
                                        !.result = memblock_sfr(epBlockSfr.block)]
    /\ UNCHANGED <<epBlocks, epIdx, epMaxblocksize, epDeferred, epFeelimited,
                   epSizelimited, epTxs, epStats, epMinfeerate>>
    /\ UNCHANGED <<sfrVars, simVars, dbVars, stVars, nodeVars, tkVars, rtVars, ssVars, poVars, prVars, ibVars, emVars>>

PoolEstNext == EpRead \/ EpLoopEnd \/ EpDeferredBlock \/ EpFallback \/ EpMemBlockSfr

(***************************************************************************)
(* PoolsEstimator (estimate/pools.py): start, id_blocks, estimate_pools    *)
(***************************************************************************)
\* the node's best height; get_coinbase_info of a height above it fails
MaxIbHeight == 3

\* a coinbase address, as its first 12 characters and the rest of it
IbAddr(head, tail) == [head |-> head, tail |-> tail]
\* the None get_coinbase_info gives for an output it cannot decode
NoAddr == IbAddr(0, 0)

\* a pool name: a name of knownpools/pools.json, or an address prefix and '_'
IbName(known, id) == [known |-> known, id |-> id]
\* no value: the height is not a key of blockmap
NoName == IbName(FALSE, 0)

\* poolinfo['payout_addresses'] and poolinfo['coinbase_tags'] of two pools
payout_addresses ==
    {[key |-> IbAddr(1, 1), name |-> IbName(TRUE, 1)],
     [key |-> IbAddr(2, 1), name |-> IbName(TRUE, 2)]}
coinbase_tags ==
    {[key |-> 1, name |-> IbName(TRUE, 1)],
     [key |-> 2, name |-> IbName(TRUE, 2)]}

\* dict.items() of a dict: its items in some order
IbItems(d) ==
    {s \in [1..Cardinality(d) -> d] : \A i, j \in 1..Cardinality(d) : i /= j => s[i] /= s[j]}

\* what get_coinbase_info(height) can return: the addresses of the coinbase
\* outputs in order, and the registry tags the coinbase script contains
IbCoinbases ==
    {[addrs |-> l, tag |-> t] :
        l \in {<<>>, <<NoAddr>>, <<IbAddr(1, 1)>>, <<IbAddr(2, 1)>>, <<IbAddr(3, 1)>>,
               <<IbAddr(3, 2)>>, <<NoAddr, IbAddr(3, 2)>>,
               <<IbAddr(1, 1), IbAddr(2, 1)>>, <<IbAddr(3, 1), IbAddr(1, 1)>>},
        t \in SUBSET {1, 2}}
NoCoinbase == [addrs |-> <<>>, tag |-> {}, height |-> 0]

\* an assignment that does not look at self.blockmap first
ib_overwrite(current, name) == name

\* self.blockmap[height] = name, unless height in self.blockmap
ib_assign(current, name) == IF current /= NoName THEN current ELSE name

\* the loop over poolinfo['payout_addresses'].items()
RECURSIVE ib_match_addrs(_, _, _, _)
ib_match_addrs(items, baddrs, current, i) ==
    IF i > Len(items) THEN current
    ELSE ib_match_addrs(items, baddrs,
             IF \E k \in 1..Len(baddrs) : baddrs[k] = items[i].key
             THEN ib_assign(current, items[i].name) ELSE current,
             i + 1)

\* the loop over poolinfo['coinbase_tags'].items()
RECURSIVE ib_match_tags(_, _, _, _)
ib_match_tags(items, btag, current, i) ==
    IF i > Len(items) THEN current
    ELSE ib_match_tags(items, btag,
             IF items[i].key \in btag THEN ib_assign(current, items[i].name) ELSE current,
             i + 1)

\* baddrs[0][:12] + '_'
unknown_name(baddrs) == IbName(FALSE, baddrs[1].head)

\* the body of the loop of id_blocks for a height that is not in blockmap
id_block(cb, addrItems, tagItems) ==
    LET baddrs == SelectSeq(cb.addrs, LAMBDA a : a /= NoAddr)
        byaddr == ib_match_addrs(addrItems, baddrs, NoName, 1)
        bytag == ib_match_tags(tagItems, cb.tag, byaddr, 1)
    IN  IF bytag /= NoName THEN bytag
        ELSE IF baddrs /= <<>> THEN unknown_name(baddrs)
        ELSE NoName

\* a range taken as closed at its upper end
ib_outside_closed(height, range) == height < range[1] \/ height > range[2]

\* height < blockrangetuple[0] or height >= blockrangetuple[1]
ib_outside(height, range) == height < range[1] \/ height >= range[2]

\* the keys of self.blockmap
IbKeys(blockmap) == {h \in DOMAIN blockmap : blockmap[h] /= NoName}

\* proportions taken over the heights of the chain instead of the mapped ones
estimate_pools_allheights(blockmap) ==
    [poolname \in {blockmap[h] : h \in IbKeys(blockmap)} |->
        [num |-> Cardinality({h \in IbKeys(blockmap) : blockmap[h] = poolname}),
         den |-> Cardinality(DOMAIN blockmap)]]

\* estimate_pools: proportion = len(blockheights) / float(totalnumblocks)
estimate_pools(blockmap) ==
    LET poollist == {blockmap[h] : h \in IbKeys(blockmap)}
        totalnumblocks == Cardinality(IbKeys(blockmap))
    IN  [poolname \in poollist |->
            [num |-> Cardinality({h \in IbKeys(blockmap) : blockmap[h] = poolname}),
             den |-> totalnumblocks]]

\* SimPools.update(pools): takes any pools, also none (SimPools({}) in test_caps)
SimPools_update(pools) == TRUE

IbIdle ==
    /\ ibAddrOrder = <<>> /\ ibTagOrder = <<>>
    /\ ibBlockmap = <<>> /\ ibPools = <<>>
    /\ ibPc = "idle" /\ ibRange = <<0, 0>> /\ ibHeight = 0
    /\ ibBefore = <<>> /\ ibFetched = {} /\ ibCoinbase = NoCoinbase
    /\ ibError = "none"

\* PoolsEstimator(): no blockmap, no pools
IbInit ==
    /\ ibAddrOrder \in IbItems(payout_addresses)
    /\ ibTagOrder \in IbItems(coinbase_tags)
    /\ ibBlockmap = [h \in 1..MaxIbHeight |-> NoName]
    /\ ibPools = <<>>
    /\ ibPc = "new" /\ ibRange = <<0, 0>> /\ ibHeight = 0
    /\ ibBefore = [h \in 1..MaxIbHeight |-> NoName]
    /\ ibFetched = {} /\ ibCoinbase = NoCoinbase
    /\ ibError = "none"

IbOthers ==
    UNCHANGED <<sfrVars, simVars, dbVars, stVars, nodeVars, tkVars, rtVars, ssVars, poVars, prVars, epVars, emVars>>

\* start(blockrangetuple) on a new estimator or on one whose last start returned
\* (PoolsEstimatorOnline.update drops the copy whose start raised): id_blocks begins
IbStart(a, b) ==
    /\ ibPc \in {"new", "done"}
    /\ ibPc' = "id_blocks"
    /\ ibRange' = <<a, b>>
    /\ ibHeight' = a
    /\ ibBefore' = ibBlockmap
    /\ ibFetched' = {}
    /\ ibCoinbase' = NoCoinbase
    /\ ibError' = "none"
    /\ UNCHANGED <<ibAddrOrder, ibTagOrder, ibBlockmap, ibPools>>
    /\ IbOthers

\* if height in self.blockmap: continue
IbCached ==
    /\ ibPc = "id_blocks" /\ ibHeight < ibRange[2]
    /\ ibHeight \in IbKeys(ibBlockmap)
    /\ ibHeight' = ibHeight + 1
    /\ UNCHANGED <<ibAddrOrder, ibTagOrder, ibBlockmap, ibPools, ibPc, ibRange, ibBefore,
                   ibFetched, ibCoinbase, ibError>>
    /\ IbOthers

\* the stop flag is found set: raise StopIteration
IbStopped ==
    /\ \/ ibPc = "id_blocks" /\ ibHeight < ibRange[2] /\ ibHeight \notin IbKeys(ibBlockmap)
       \/ ibPc = "estimate_pools" /\ IbKeys(ibBlockmap) /= {}
    /\ ibPc' = "raised"
    /\ ibError' = "StopIteration"
    /\ UNCHANGED <<ibAddrOrder, ibTagOrder, ibBlockmap, ibPools, ibRange, ibHeight, ibBefore,
                   ibFetched, ibCoinbase>>
    /\ IbOthers

\* get_coinbase_info(height) raises IndexError: the node has no such block
IbBadRange ==
    /\ ibPc = "id_blocks" /\ ibHeight < ibRange[2]
    /\ ibHeight \notin IbKeys(ibBlockmap)
    /\ ibHeight > MaxIbHeight
    /\ ibPc' = "raised"
    /\ ibError' = "IndexError"
    /\ ibFetched' = ibFetched \cup {ibHeight}
    /\ UNCHANGED <<ibAddrOrder, ibTagOrder, ibBlockmap, ibPools, ibRange, ibHeight, ibBefore,
                   ibCoinbase>>
    /\ IbOthers

\* one block is fetched and identified
IbBlock ==
    /\ ibPc = "id_blocks" /\ ibHeight < ibRange[2]
    /\ ibHeight \notin IbKeys(ibBlockmap)
    /\ ibHeight <= MaxIbHeight
    /\ \E cb \in IbCoinbases :
        /\ ibCoinbase' = [addrs |-> cb.addrs, tag |-> cb.tag, height |-> ibHeight]
        /\ ibBlockmap' = [ibBlockmap EXCEPT ![ibHeight] = id_block(cb, ibAddrOrder, ibTagOrder)]
    /\ ibFetched' = ibFetched \cup {ibHeight}
    /\ ibHeight' = ibHeight + 1
    /\ UNCHANGED <<ibAddrOrder, ibTagOrder, ibPools, ibPc, ibRange, ibBefore, ibError>>
    /\ IbOthers

\* the end of id_blocks: the keys outside the range are deleted
IbCollect ==
    /\ ibPc = "id_blocks" /\ ibHeight >= ibRange[2]
    /\ ibBlockmap' = [h \in DOMAIN ibBlockmap |->
                         IF ib_outside(h, ibRange) THEN NoName ELSE ibBlockmap[h]]
    /\ ibPc' = "estimate_pools"
    /\ UNCHANGED <<ibAddrOrder, ibTagOrder, ibPools, ibRange, ibHeight, ibBefore, ibFetched,
                   ibCoinbase, ibError>>
    /\ IbOthers

\* estimate_pools and self.update()
IbEstimatePools ==
    /\ ibPc = "estimate_pools"
    /\ ibPools' = estimate_pools(ibBlockmap)
    /\ SimPools_update(ibPools')
    /\ ibPc' = "interval"
    /\ ibBefore' = [h \in DOMAIN ibBlockmap |-> NoName]
    /\ ibFetched' = {}
    /\ ibCoinbase' = NoCoinbase
    /\ UNCHANGED <<ibAddrOrder, ibTagOrder, ibBlockmap, ibRange, ibHeight, ibError>>
    /\ IbOthers

\* estimate_block_interval: numintervals < 1
ib_numintervals(range) == range[2] - 1 - range[1]

\* estimate_block_interval raises ValueError: too few heights, or both ends of the
\* range carry the same timestamp
IbIntervalError ==
    /\ ibPc = "interval"
    /\ ibPc' = "raised"
    /\ ibError' = "ValueError"
    /\ UNCHANGED <<ibAddrOrder, ibTagOrder, ibBlockmap, ibPools, ibRange, ibHeight, ibBefore,
                   ibFetched, ibCoinbase>>
    /\ IbOthers

\* estimate_block_interval returns and start ends
IbFinish ==
    /\ ibPc = "interval"
    /\ ib_numintervals(ibRange) >= 1
    /\ ibPc' = "done"
    /\ UNCHANGED <<ibAddrOrder, ibTagOrder, ibBlockmap, ibPools, ibRange, ibHeight, ibBefore,
                   ibFetched, ibCoinbase, ibError>>
    /\ IbOthers

IdBlocksNext ==
    \/ \E a \in 1..MaxIbHeight, b \in 1..(MaxIbHeight + 2) : IbStart(a, b)
    \/ IbCached \/ IbStopped \/ IbBadRange \/ IbBlock \/ IbCollect
    \/ IbEstimatePools \/ IbIntervalError \/ IbFinish

(***************************************************************************)
(* simul/txsources.py: TxSource.generate_txs and poisson_sample, and the   *)
(* emitter a simulation makes of a source: it inserts what generate_txs    *)
(* draws into the mempool, but for the transactions below its feerate      *)
(* threshold.                                                              *)
(***************************************************************************)
MaxEmit == 2        \* the transactions of one generate_txs call
MaxEmCalls == 2     \* the calls of one emitter

\* the thresholds an emitter is made with: around the feerates of TxChoices,
\* and float("inf")
EmThresholds == {0, 1000, 1001, 11000, SimInf}

\* the transactions of a generated sample: one size, a low and a high feerate
EmTxChoices == {tx \in TxChoices : tx.size = 250}

\* the time intervals an emitter is called with
EmIntervals == {0, 600}

\* what poisson_sample(l) can return, l in tenths as txrate is: k - 1 with
\* k = 0 when exp(-l) = 1, where the loop is not entered; a count otherwise,
\* but for the means above 30 that the normal approximation z*sqrt(l) + l
\* can take below 0 (z > -8.6 for the u a float random() gives)
poisson_sample(l) ==
    IF l = 0 THEN {0 - 1}
    ELSE IF 300 < l /\ l < 740 THEN (0 - 1)..MaxEmit
    ELSE 0..MaxEmit

\* the index sequences [int(random()*n) for i in range(k)], counted from 1
EmDraws(k, n) == IF k <= 0 THEN {<<>>} ELSE [1..k -> 1..n]

\* a threshold that a transaction has to exceed
em_accepts_above(tx, feeratethresh) == tx.feerate > feeratethresh

\* the emitter: "Reject any tx with feerate below a caller-supplied threshold"
em_accepts(tx, feeratethresh) == tx.feerate >= feeratethresh

\* get_emitter: refused for an empty sample with a positive rate
get_emitter(txsample, txrate) ==
    IF txsample = <<>> /\ txrate > 0 THEN "ValueError" ELSE "emitter"

EmIdle ==
    /\ emSample = <<>> /\ emTxRate = 0 /\ emThresh = 0
    /\ emPc = "idle"
    /\ emDrawn = <<>> /\ emMempool = <<>> /\ emCalls = <<>> /\ emK = <<>>

\* TxSource(txsample, txrate)
EmInit ==
    /\ emSample \in SeqsUpTo(EmTxChoices, MaxSample) \cup {ref_txsample_list}
    /\ emTxRate \in {0, ref_txrate}
    /\ emThresh = 0
    /\ emPc = "new"
    /\ emDrawn = <<>> /\ emMempool = <<>> /\ emCalls = <<>> /\ emK = <<>>

EmOthers ==
    UNCHANGED <<sfrVars, simVars, dbVars, stVars, nodeVars, tkVars, rtVars, ssVars, poVars, prVars, epVars, ibVars>>

\* tx_source.get_emitter(mempool, feeratethresh) on an empty mempool
EmGetEmitter ==
    /\ emPc \in {"new", "emitter"}
    /\ emPc' = get_emitter(emSample, emTxRate)
    /\ emThresh' \in EmThresholds
    /\ emDrawn' = <<>> /\ emMempool' = <<>> /\ emCalls' = <<>> /\ emK' = <<>>
    /\ UNCHANGED <<emSample, emTxRate>>
    /\ EmOthers

\* tx_emitter(time_interval): generate_txs and the insertion into the mempool
EmEmit ==
    /\ emPc = "emitter"
    /\ Len(emCalls) < MaxEmCalls
    /\ \E time_interval \in EmIntervals :
        /\ emCalls' = Append(emCalls, time_interval)
        /\ \E k \in poisson_sample(emTxRate * time_interval) :
            /\ emK' = <<k>>
            /\ IF k > 0 /\ emSample = <<>>
               THEN /\ emPc' = "IndexError"
                    /\ UNCHANGED <<emDrawn, emMempool>>
               ELSE \E draws \in EmDraws(k, Len(emSample)) :
                    /\ emDrawn' = [i \in DOMAIN draws |-> emSample[draws[i]]]
                    /\ emMempool' = emMempool \o
                           SelectSeq(emDrawn', LAMBDA tx : em_accepts(tx, emThresh))
                    /\ UNCHANGED emPc
    /\ UNCHANGED <<emSample, emTxRate, emThresh>>
    /\ EmOthers

EmitterNext == EmGetEmitter \/ EmEmit

(***************************************************************************)
(* simul/stats.py: WaitFn, the wait time as a function of the feerate, and *)
(* util.interpolate under it. The values interpolate computes in floating  *)
(* point are kept as fractions num / den with den > 0; den = 0 stands for  *)
(* the None a WaitFn returns.                                              *)
(***************************************************************************)
MaxWfGrid == 3      \* grid points of a generated WaitFn

RECURSIVE Gcd(_, _)
Gcd(a, b) == IF b = 0 THEN a ELSE Gcd(b, a % b)

Abs(a) == IF a < 0 THEN 0 - a ELSE a

\* num / den in lowest terms
Frac(num, den) ==
    LET g == Gcd(Abs(num), Abs(den))
    IN IF g = 0 THEN [num |-> 0, den |-> 0]
       ELSE [num |-> num \div g, den |-> den \div g]

NoneFrac == [num |-> 0, den |-> 0]

FracEq(a, b) == a.den /= 0 /\ b.den /= 0 /\ a.num * b.den = b.num * a.den

FracLeq(a, b) == a.num * b.den <= b.num * a.den

\* bisect.bisect(a, x0) of a sorted list of numbers, x0 a fraction
bisectFrac(a, x0) == Cardinality({i \in 1..Len(a) : a[i] * x0.den <= x0.num})

\* interpolate returning the value of the grid point below x0
interpolate_step(x0, x, y) ==
    LET idx == bisectFrac(x, x0)
    IN IF idx = Len(x) THEN [y0 |-> Frac(y[Len(y)], 1), idx |-> idx]
       ELSE IF idx = 0 THEN [y0 |-> Frac(y[1], 1), idx |-> idx]
       ELSE [y0 |-> Frac(y[idx], 1), idx |-> idx]

\* util.interpolate: y0 = y_b + (x0 - x_b) / (x_f - x_b) * (y_f - y_b)
interpolate(x0, x, y) ==
    LET idx == bisectFrac(x, x0)
    IN IF idx = Len(x) THEN [y0 |-> Frac(y[Len(y)], 1), idx |-> idx]
       ELSE IF idx = 0 THEN [y0 |-> Frac(y[1], 1), idx |-> idx]
       ELSE LET x_f == x[idx + 1]
                y_f == y[idx + 1]
                x_b == x[idx]
                y_b == y[idx]
            IN [y0 |-> Frac(y_b * x0.den * (x_f - x_b)
                              + (x0.num - x_b * x0.den) * (y_f - y_b),
                            x0.den * (x_f - x_b)),
                idx |-> idx]

\* a[-1::-1]
Reversed(a) == [i \in 1..Len(a) |-> a[Len(a) + 1 - i]]

WaitFn(feerates, waits) == [feerates |-> feerates, waits |-> waits]

\* WaitFn.__call__
WaitFn_call(fn, feerate) ==
    LET r == interpolate(feerate, fn.feerates, fn.waits)
    IN IF r.idx /= 0 THEN r.y0 ELSE NoneFrac

\* WaitFn.inv
WaitFn_inv(fn, wait) ==
    LET r == interpolate(wait, Reversed(fn.waits), Reversed(fn.feerates))
    IN IF r.idx /= 0 THEN r.y0 ELSE NoneFrac

WfFeerates == {1000, 2000, 4000, 8000}

WfWaits == {150, 300, 600}

NonIncreasing(s) == \A i \in 1..(Len(s) - 1) : s[i] >= s[i + 1]

\* the WaitFns of a simulation: feeclasses strictly increasing, and the
\* wait of a higher feeclass never longer
WaitFns ==
    UNION {{WaitFn(Increasing(S), w) :
                S \in {T \in SUBSET WfFeerates : Cardinality(T) = k},
                w \in {v \in [1..k -> WfWaits] : NonIncreasing(v)}} :
           k \in 1..MaxWfGrid}

\* the feerates a WaitFn is evaluated at: grid points and points around them
WfArgs == {500, 999, 1000, 1500, 2000, 3000, 4000, 5000, 8000, 44444}

\* the waits a WaitFn is inverted at
WfInvArgs == {149, 150, 200, 300, 450, 600, 700}

WfInit ==
    /\ rtWaitFn \in WaitFns
    /\ rtWaitCall = Unset
    /\ rtPools = Unset
    /\ rtCaps = Unset
    /\ rtSample = <<>>
    /\ rtTxRate = 0
    /\ rtFeerates = <<>>
    /\ rtByterates = Unset
    /\ rtCap = Unset
    /\ rtThresh = 0
    /\ rtSimul = Unset
    /\ rtFeeclasses = <<>>
    /\ rtFcPc = "new"

WfOthers ==
    /\ UNCHANGED <<rtPools, rtCaps, rtSample, rtTxRate, rtFeerates, rtByterates,
                   rtCap, rtThresh, rtSimul, rtWaitFn, rtFeeclasses, rtFcPc>>
    /\ UNCHANGED <<sfrVars, simVars, dbVars, stVars, nodeVars, tkVars, ssVars, poVars, prVars, epVars, ibVars, emVars>>

\* fn(feerate)
WfCall ==
    /\ rtWaitFn /= Unset
    /\ \E feerate \in WfArgs :
          rtWaitCall' = [op |-> "call", arg |-> Frac(feerate, 1),
                         result |-> WaitFn_call(rtWaitFn, Frac(feerate, 1))]
    /\ WfOthers

\* fn.inv(wait)
WfInv ==
    /\ rtWaitFn /= Unset
    /\ \E wait \in WfInvArgs :
          rtWaitCall' = [op |-> "inv", arg |-> Frac(wait, 1),
                         result |-> WaitFn_inv(rtWaitFn, Frac(wait, 1))]
    /\ WfOthers

\* fn.inv(fn(feerate)), of a feerate fn has a wait for
WfInvOfCall ==
    /\ rtWaitCall /= Unset
    /\ rtWaitCall.op = "call"
    /\ rtWaitCall.result /= NoneFrac
    /\ rtWaitCall' = [op |-> "inv_of_call", arg |-> rtWaitCall.arg,
                      result |-> WaitFn_inv(rtWaitFn, rtWaitCall.result)]
    /\ WfOthers

WaitFnNext == WfCall \/ WfInv \/ WfInvOfCall

(***************************************************************************)
(* simul/stats.py: get_feeclasses(cap, tx_source, stablefeerate), as       *)
(* SteadyStateOnline.update calls it on the Capacity, the transaction      *)
(* source and the stable feerate of a Simul. The weighted percentiles and  *)
(* the 10% threshold are compared in integers (100 * curr_total against    *)
(* total * p, 10 * byteratediff against byterates[0]).                     *)
(***************************************************************************)
quantize == 200

\* range(5, 100, 5)
PercentilePts == {5 * i : i \in 1..19}

\* sum(weights)
RECURSIVE SumSeq(_)
SumSeq(s) == IF s = <<>> THEN 0 ELSE Head(s) + SumSeq(Tail(s))

\* DataSample.get_percentile(p / 100., weights): the first datapoint at which
\* the running total of the weights reaches total * p
get_percentile(datapoints, p, weights) ==
    LET total == SumSeq(weights)
        reached == {idx \in 1..Len(datapoints) :
                        100 * SumSeq(SubSeq(weights, 1, idx)) >= total * p}
    IN datapoints[SetMin(reached)]

\* sorted(S) of a set of numbers
sorted(S) ==
    [i \in 1..Cardinality(S) |->
        CHOOSE x \in S : Cardinality({y \in S : y < x}) = i - 1]

\* int(ceil((feerate + 1) / quantize) * quantize)
round_up(feerate) == ((feerate + quantize) \div quantize) * quantize

\* the feeclasses before the loop: the weighted percentiles of cap.feerates[1:],
\* rounded up, sorted and without duplicates
fc_percentiles(cap) ==
    LET feerates == Tail(cap.feerates)
        caps == cap.cap_lower
        capsdiff == [idx \in 1..Len(feerates) |-> caps[idx + 1] - caps[idx]]
    IN sorted({round_up(get_percentile(feerates, p, capsdiff)) :
                   p \in PercentilePts})

\* new_feeclasses of one pass of the loop
fc_new(txsample, txrate, feeclasses) ==
    LET byterates == get_byterates(txsample, txrate, feeclasses)
        byteratethresh10 == byterates[1]
    IN {feeclasses[idx] + ((feeclasses[idx + 1] - feeclasses[idx]) \div 2) :
            idx \in {i \in 1..(Len(byterates) - 1) :
                        /\ 10 * (byterates[i] - byterates[i + 1]) > byteratethresh10
                        /\ feeclasses[i + 1] - feeclasses[i] > 1}}

ToSet(s) == {s[i] : i \in 1..Len(s)}

\* the filter left out
fc_unfiltered(feeclasses, stablefeerate) == feeclasses

\* filter(lambda fee: fee >= stablefeerate, feeclasses)
fc_filter(feeclasses, stablefeerate) ==
    SelectSeq(feeclasses, LAMBDA fee : fee >= stablefeerate)

\* the transactions of a generated sample: one below and one above the
\* second capacity step
FcTxChoices == [feerate : {2000, 11000}, size : {250, 500}]

\* Capacity objects whose tx_byterates fall with the feerate, as the
\* byterate above a feerate does
FcCapacities == {c \in Capacities : NonIncreasing(c.tx_byterates)}

\* a Simul that was built (it has a stable feerate), its Capacity and its
\* transaction source
FcInit ==
    /\ rtCap \in FcCapacities
    /\ rtThresh = 9
    /\ calc_stablefeerate(rtCap, rtThresh) /= None
    /\ rtSimul = [stablefeerate |-> calc_stablefeerate(rtCap, rtThresh),
                  feeratethresh |-> None, pc |-> "new"]
    /\ rtSample \in SeqsUpTo(FcTxChoices, MaxSample) \cup {ref_txsample_list}
    /\ rtTxRate = ref_txrate
    /\ rtFeeclasses = <<>>
    /\ rtFcPc = "new"
    /\ rtPools = Unset
    /\ rtCaps = Unset
    /\ rtFeerates = <<>>
    /\ rtByterates = Unset
    /\ rtWaitFn = Unset
    /\ rtWaitCall = Unset

FcOthers ==
    /\ UNCHANGED <<rtPools, rtCaps, rtSample, rtTxRate, rtFeerates, rtByterates,
                   rtCap, rtThresh, rtSimul, rtWaitFn, rtWaitCall>>
    /\ UNCHANGED <<sfrVars, simVars, dbVars, stVars, nodeVars, tkVars, ssVars, poVars, prVars, epVars, ibVars, emVars>>

\* get_feeclasses up to the loop; a Capacity of the single feerate 0 leaves
\* DataSample without datapoints and get_percentile multiplies p by n = None
FcPercentiles ==
    /\ rtFcPc = "new"
    /\ rtSimul /= Unset
    /\ IF Len(rtCap.feerates) = 1
       THEN /\ rtFcPc' = "TypeError"
            /\ UNCHANGED rtFeeclasses
       ELSE /\ rtFcPc' = "loop"
            /\ rtFeeclasses' = fc_percentiles(rtCap)
    /\ FcOthers

\* one pass of the while loop; after the pass that adds nothing, the filter
\* and the return
FcPass ==
    /\ rtFcPc = "loop"
    /\ LET new_feeclasses == fc_new(rtSample, rtTxRate, rtFeeclasses)
       IN IF new_feeclasses /= {}
          THEN /\ rtFeeclasses' = sorted(ToSet(rtFeeclasses) \cup new_feeclasses)
               /\ UNCHANGED rtFcPc
          ELSE /\ rtFeeclasses' = fc_filter(rtFeeclasses, rtSimul.stablefeerate)
               /\ rtFcPc' = "returned"
    /\ FcOthers

FeeClassesNext == FcPercentiles \/ FcPass

\* the MemBlock of height 1 an earlier run of the tracker recorded to the
\* history file: its rows differ from those any later recording of height 1 has
EarlierMemBlock ==
    [height |-> 0,
     entries |-> [txid \in {"0"} |-> BaseEntry],
     time |-> 0,
     blockheight |-> 1,
     blocksize |-> 999]

\* the tracker starts on a history file that holds the earlier MemBlock, the
\* node back at height 0; nothing is pruned
HistoryInit ==
    /\ dbBlocks = InsertBlock({}, {}, EarlierMemBlock).blocks
    /\ dbTxs = InsertBlock({}, {}, EarlierMemBlock).txs
    /\ TkInit
    /\ tkKeep = 0

(***************************************************************************)
(* The specifications                                                      *)
(***************************************************************************)
InitSfr == SfrInit /\ SimIdle /\ DbInit /\ StIdle /\ NodeIdle /\ TkIdle /\ RtIdle /\ SsIdle /\ PoIdle /\ PrIdle /\ EpIdle /\ IbIdle /\ EmIdle

SpecSfr == InitSfr /\ [][SfrNext]_vars

InitSim == SimInit /\ SfrIdle /\ DbInit /\ StIdle /\ NodeIdle /\ TkIdle /\ RtIdle /\ SsIdle /\ PoIdle /\ PrIdle /\ EpIdle /\ IbIdle /\ EmIdle

SpecSim == InitSim /\ [][SimNext]_vars

InitStore == StInit /\ DbInit /\ SfrIdle /\ SimIdle /\ NodeIdle /\ TkIdle /\ RtIdle /\ SsIdle /\ PoIdle /\ PrIdle /\ EpIdle /\ IbIdle /\ EmIdle

SpecStore == InitStore /\ [][StoreNext]_vars

InitTracker == TkInit /\ NodeInit /\ DbInit /\ StIdle /\ SfrIdle /\ SimIdle /\ RtIdle /\ SsIdle /\ PoIdle /\ PrIdle /\ EpIdle /\ IbIdle /\ EmIdle

SpecTracker == InitTracker /\ [][TrackerNext]_vars

InitPoll == TkInit /\ PollInit /\ DbInit /\ StIdle /\ SfrIdle /\ SimIdle /\ RtIdle /\ SsIdle /\ PoIdle /\ PrIdle /\ EpIdle /\ IbIdle /\ EmIdle

SpecPoll == InitPoll /\ [][PollNext]_vars

InitRates == RtInit /\ SfrIdle /\ SimIdle /\ DbInit /\ StIdle /\ NodeIdle /\ TkIdle /\ SsIdle /\ PoIdle /\ PrIdle /\ EpIdle /\ IbIdle /\ EmIdle

SpecRates == InitRates /\ [][RatesNext]_vars

InitRun == RunInit /\ SfrIdle /\ SimIdle /\ DbInit /\ StIdle /\ NodeIdle /\ TkIdle /\ RtIdle /\ PoIdle /\ PrIdle /\ EpIdle /\ IbIdle /\ EmIdle

SpecRun == InitRun /\ [][RunNext]_vars

InitWorkers ==
    PoInit /\ SsInit /\ SfrIdle /\ SimIdle /\ DbInit /\ StIdle /\ NodeIdle /\ TkIdle /\ RtIdle
    /\ PrIdle /\ EpIdle /\ IbIdle /\ EmIdle

SpecWorkers == InitWorkers /\ [][WorkersNext]_vars

\* the steady-state thread is a thread of its own and keeps being scheduled
SpecWorkersFair == InitWorkers /\ [][WorkersNext]_vars /\ WF_vars(SsThread)

InitPredict ==
    PrInit /\ SfrIdle /\ SimIdle /\ DbInit /\ StIdle /\ NodeIdle /\ TkIdle /\ RtIdle
    /\ SsIdle /\ PoIdle /\ EpIdle /\ IbIdle /\ EmIdle

SpecPredict == InitPredict /\ [][PredictNext]_vars

InitPoolEst ==
    EpInit /\ SfrIdle /\ SimIdle /\ DbInit /\ StIdle /\ NodeIdle /\ TkIdle /\ RtIdle
    /\ SsIdle /\ PoIdle /\ PrIdle /\ IbIdle /\ EmIdle

SpecPoolEst == InitPoolEst /\ [][PoolEstNext]_vars

InitIdBlocks ==
    IbInit /\ SfrIdle /\ SimIdle /\ DbInit /\ StIdle /\ NodeIdle /\ TkIdle /\ RtIdle
    /\ SsIdle /\ PoIdle /\ PrIdle /\ EpIdle /\ EmIdle

SpecIdBlocks == InitIdBlocks /\ [][IdBlocksNext]_vars

InitEmitter ==
    EmInit /\ SfrIdle /\ SimIdle /\ DbInit /\ StIdle /\ NodeIdle /\ TkIdle /\ RtIdle
    /\ SsIdle /\ PoIdle /\ PrIdle /\ EpIdle /\ IbIdle

SpecEmitter == InitEmitter /\ [][EmitterNext]_vars

InitSingle ==
    SingleInit /\ SimIdle /\ DbInit /\ StIdle /\ NodeIdle /\ TkIdle /\ RtIdle
    /\ SsIdle /\ PoIdle /\ PrIdle /\ EpIdle /\ IbIdle /\ EmIdle

SpecSingle == InitSingle /\ [][SingleNext]_vars

InitWaitFn ==
    /\ WfInit /\ SfrIdle /\ SimIdle /\ DbInit /\ StIdle /\ NodeIdle /\ TkIdle
    /\ SsIdle /\ PoIdle /\ PrIdle /\ EpIdle /\ IbIdle /\ EmIdle

SpecWaitFn == InitWaitFn /\ [][WaitFnNext]_vars

InitFeeClasses ==
    /\ FcInit /\ SfrIdle /\ SimIdle /\ DbInit /\ StIdle /\ NodeIdle /\ TkIdle
    /\ SsIdle /\ PoIdle /\ PrIdle /\ EpIdle /\ IbIdle /\ EmIdle

SpecFeeClasses == InitFeeClasses /\ [][FeeClassesNext]_vars

\* the loop is in one thread and nothing stops it: each pass is taken
SpecFeeClassesFair == SpecFeeClasses /\ WF_vars(FeeClassesNext)

InitHistory == HistoryInit /\ NodeInit /\ StIdle /\ SfrIdle /\ SimIdle /\ RtIdle /\ SsIdle /\ PoIdle /\ PrIdle /\ EpIdle /\ IbIdle /\ EmIdle

SpecHistory == InitHistory /\ [][TrackerNext]_vars

(***************************************************************************)
(* C1: calcMinFeeRateSingle against the definition of the stranding        *)
(* feerate                                                                 *)
(***************************************************************************)
\* k(f) of a feerate f: in-block minus out-of-block observations at or above f
KOf(fs, f) ==
    IF f = Inf THEN 0
    ELSE Cardinality({i \in 1..Len(fs) : fs[i].feeRate >= f /\ fs[i].inBlock})
         - Cardinality({i \in 1..Len(fs) : fs[i].feeRate >= f /\ ~fs[i].inBlock})

ObservedRates(fs) == {fs[i].feeRate : i \in 1..Len(fs)} \cup {Inf}

IsStrandingFeeRate(fs, r) ==
    /\ r \in ObservedRates(fs)
    /\ \A f \in ObservedRates(fs) : KOf(fs, f) <= KOf(fs, r)
    /\ \A f \in ObservedRates(fs) : KOf(fs, f) = KOf(fs, r) => r <= f
    /\ (\A i \in 1..Len(fs) : ~fs[i].inBlock) => r = Inf

\* C1: for every non-empty list sorted by feerate descending, the routine
\* returns the smallest feerate maximising k, with k(+inf) = 0, and +inf when
\* every observation is out-of-block; so for the block's list and for every
\* bootstrap resample.
C1_StrandingFeeRate ==
    /\ (sfrPc = "estimated" /\ feeStats # <<>>) => IsStrandingFeeRate(feeStats, minFeeRate)
    /\ bootSample # <<>> => IsStrandingFeeRate(bootSample, bootMinFeeRate)

\* a tie: two feerates reach the maximum of k and the smaller one is returned
C1_Witness ==
    /\ sfrPc = "estimated"
    /\ feeStats # <<>>
    /\ minFeeRate # Inf
    /\ \E f \in ObservedRates(feeStats) :
          f > minFeeRate /\ f # Inf /\ KOf(feeStats, f) = KOf(feeStats, minFeeRate)

(***************************************************************************)
(* C2..C6: the blocks of the simulator                                     *)
(***************************************************************************)
BlockPool == ref_pools[simBlock.poolname]
BlockTxs == {simBlock.txs[i] : i \in 1..Len(simBlock.txs)}

\* the sum of the sizes of txs[lo..hi]
RECURSIVE SumSizes(_, _, _, _)
SumSizes(entries, txs, lo, hi) ==
    IF lo > hi THEN 0
    ELSE IF lo = hi THEN entries[txs[lo]].size
    ELSE LET mid == (lo + hi) \div 2
         IN SumSizes(entries, txs, lo, mid) + SumSizes(entries, txs, mid + 1, hi)

\* the entries a block left behind although their dependencies are met and
\* their feerate is acceptable to the pool
LeftEligible ==
    {t \in DOMAIN simEntries :
        simEntries[t].depends = {} /\ simEntries[t].feerate >= BlockPool.minfeerate}

\* the candidates when the i-th transaction of the block was chosen: not yet
\* included, every dependency included
CandidatesAt(i) ==
    LET before == {simBlock.txs[j] : j \in 1..(i - 1)}
    IN {t \in DOMAIN simPrev \ before : simPrev[t].depends \subseteq before}

\* C2: every included transaction pays at least the pool's min_feerate, the
\* block's size is the sum of the sizes of its transactions and at most
\* max_block_size, each transaction taken is a candidate of the highest
\* feerate at that moment, and an acceptable candidate is left behind only if
\* the best one left does not fit.
C2_BlockSelection ==
    simHeight > 0 =>
        /\ \A t \in BlockTxs : simPrev[t].feerate >= BlockPool.minfeerate
        /\ simBlock.size = SumSizes(simPrev, simBlock.txs, 1, Len(simBlock.txs))
        /\ simBlock.size <= BlockPool.maxblocksize
        /\ \A i \in 1..Len(simBlock.txs) :
              /\ simBlock.txs[i] \in CandidatesAt(i)
              /\ \A t \in CandidatesAt(i) :
                    simPrev[t].feerate <= simPrev[simBlock.txs[i]].feerate
        /\ LeftEligible # {} =>
              \E t \in LeftEligible :
                  /\ \A u \in LeftEligible : simEntries[u].feerate <= simEntries[t].feerate
                  /\ simBlock.size + simEntries[t].size > BlockPool.maxblocksize

\* a block that stopped for lack of space with a smaller acceptable candidate
\* still waiting behind the one that did not fit
C2_Witness ==
    /\ simHeight > 0
    /\ simBlock.txs # <<>>
    /\ \E t \in LeftEligible :
          simBlock.size + simEntries[t].size <= BlockPool.maxblocksize

\* C3: a transaction is included only after every transaction of its depends,
\* in the same block or an earlier one; in scenario S4 the first block is empty,
\* reports sfr = 1000 and leaves all 1000 entries.
C3_DependsFirst ==
    /\ simHeight > 0 =>
          \A i \in 1..Len(simBlock.txs) :
              simDeps[simBlock.txs[i]] \subseteq
                  simDone \cup {simBlock.txs[j] : j \in 1..(i - 1)}
    /\ (simMode = "S4" /\ simHeight = 1) =>
          /\ simBlock.txs = <<>>
          /\ simBlock.sfr = 1000
          /\ Cardinality(DOMAIN simEntries) = NumChildren + 1

\* S4 after its first block, the high-feerate children still waiting
C3_Witness ==
    /\ simMode = "S4"
    /\ simHeight = 1
    /\ \E t \in DOMAIN simEntries :
          simEntries[t].depends # {} /\ simEntries[t].feerate > BlockPool.minfeerate

\* C4: an entry whose dependencies are all met by the inclusions of a block is
\* a candidate of that block: if no space ran out, no acceptable entry with all
\* dependencies met is left; with the parent (1000, 900000) and 999 children
\* (100000, 250) the first block holds 401 transactions and leaves 599.
C4_PromotedSameBlock ==
    /\ (simHeight > 0 /\ ~simBlock.sizeltd) => LeftEligible = {}
    /\ (simMode = "TC" /\ simHeight = 1) =>
          /\ Len(simBlock.txs) = 401
          /\ Cardinality(DOMAIN simEntries) = 599

\* the first block of that mempool: the parent first, then children
C4_Witness ==
    /\ simMode = "TC"
    /\ simHeight = 1
    /\ simBlock.txs[1] = 0
    /\ Len(simBlock.txs) > 1
    /\ simDeps[simBlock.txs[2]] = {0}

\* the sfr the specification states: the lowest included feerate, or the next
\* candidate's feerate + 1 when space ran out, not below the pool's min_feerate
StatedSfr ==
    LET atleast(x) == IF x < BlockPool.minfeerate THEN BlockPool.minfeerate ELSE x
    IN IF simBlock.sizeltd /\ LeftEligible # {}
       THEN atleast(SetMax({simEntries[t].feerate : t \in LeftEligible}) + 1)
       ELSE IF simBlock.txs = <<>> THEN BlockPool.minfeerate
       ELSE atleast(MinIncludedFeerate(simPrev, simBlock.txs))

\* C5 as stated: the sfr of every block is StatedSfr
C5_Stated == simHeight > 0 => simBlock.sfr = StatedSfr

\* C5, amended: a block that left an acceptable candidate behind and holds at
\* least one transaction reports the lowest included feerate + 1; a block
\* that left none reports the pool's min_feerate; no block reports less than
\* the pool's min_feerate.
C5_Sfr ==
    simHeight > 0 =>
        /\ (LeftEligible # {} /\ simBlock.txs # <<>>) =>
              simBlock.sfr = MinIncludedFeerate(simPrev, simBlock.txs) + 1
        /\ LeftEligible = {} => simBlock.sfr = BlockPool.minfeerate
        /\ simBlock.sfr >= BlockPool.minfeerate

\* a block short of space whose next candidate pays more than its cheapest
\* transaction
C5_Witness ==
    /\ simHeight > 0
    /\ simBlock.txs # <<>>
    /\ \E t \in LeftEligible :
          simEntries[t].feerate > MinIncludedFeerate(simPrev, simBlock.txs)

\* C6: scenario S3: the first block holds exactly one transaction, reports
\* sfr = 100001 and leaves 999 entries.
C6_ScenarioS3 ==
    (simMode = "S3" /\ simHeight = 1) =>
        /\ simBlock.poolname = "pool2"
        /\ Len(simBlock.txs) = 1
        /\ simBlock.sfr = 100001
        /\ Cardinality(DOMAIN simEntries) = NumChildren

\* S3 after its first block: entry 0 taken, its children promoted and waiting
C6_Witness ==
    /\ simMode = "S3"
    /\ simHeight = 1
    /\ simBlock.txs = <<0>>
    /\ \A t \in DOMAIN simEntries : simEntries[t].depends = {}



(***************************************************************************)
(* C7: the MemBlocks of one process_blocks call                            *)
(***************************************************************************)
\* C7: when the polled height rises from h to h+n, n >= 1, process_blocks
\* returns exactly n MemBlocks with blockheight h+1, ..., h+n in that order,
\* each with height = blockheight - 1 and the time of the one previous state,
\* and a transaction marked inblock in the i-th MemBlock is an entry of none
\* of the MemBlocks after it.
C7_ProcessBlocks ==
    tkJob # <<>> =>
        LET prevstate == tkJob[1]
            newstate == tkJob[2]
            n == newstate.height - prevstate.height
        IN /\ n >= 1
           /\ Len(tkMemblocks) = n
           /\ \A i \in 1..n :
                /\ tkMemblocks[i].blockheight = prevstate.height + i
                /\ tkMemblocks[i].height = tkMemblocks[i].blockheight - 1
                /\ tkMemblocks[i].time = prevstate.time
           /\ \A i \in 1..n : \A j \in (i + 1)..n :
                \A txid \in DOMAIN tkMemblocks[i].entries :
                    tkMemblocks[i].entries[txid].inblock
                        => txid \notin DOMAIN tkMemblocks[j].entries

\* two blocks found between two polls, the first one including a transaction
\* of the previous state and leaving another one to the second MemBlock
C7_Witness ==
    /\ Len(tkMemblocks) = 2
    /\ \E txid \in DOMAIN tkMemblocks[1].entries : tkMemblocks[1].entries[txid].inblock
    /\ DOMAIN tkMemblocks[2].entries # {}

(***************************************************************************)
(* C8: the depends of the entries in the history store                     *)
(***************************************************************************)
\* the entries of a MemBlock whose depends names a txid that is no key of the
\* MemBlock's entries
HangingDepends(m) ==
    {txid \in DOMAIN m.entries :
        \E k \in 1..Len(m.entries[txid].depends) :
            m.entries[txid].depends[k] \notin DOMAIN m.entries}

\* C8: in every MemBlock written to the history store, each txid listed in an
\* entry's depends is a key of that MemBlock's entries, for each of the
\* MemBlocks of a poll interval with several blocks.
C8_Stated ==
    \A r \in dbBlocks : HangingDepends(read(dbBlocks, dbTxs, r[1])) = {}

(***************************************************************************)
(* C9: write then read                                                     *)
(***************************************************************************)
\* C9: for a recorded MemBlock m, write(m) followed by read(m.blockheight)
\* returns a MemBlock equal to m: height, blockheight, blocksize, time and the
\* txid -> entry mapping, the decimals digit for digit, depends as a list, the
\* empty one included, inblock and isconflict as booleans.
C9_WriteRead ==
    (stOutcome = "ok" /\ stReadOf = stWritten.blockheight) => stRead = stWritten

\* a MemBlock written and read back whose entries hold a fee printed in
\* scientific notation, an empty depends and a depends of one txid
C9_Witness ==
    /\ stOutcome = "ok"
    /\ stReadOf = stWritten.blockheight
    /\ stRead = stWritten
    /\ DOMAIN stRead.entries = {<<"a">>, <<"a", "b">>}
    /\ stRead.entries[<<"a">>].fee = Decimal(<<"1", "0", "5">>, 0 - 9)
    /\ stRead.entries[<<"a">>].depends = <<>>
    /\ stRead.entries[<<"a", "b">>].depends = << <<"a">> >>

(***************************************************************************)
(* C10: the two transactions of write                                      *)
(***************************************************************************)
\* the rows of the tables at or below a height
RowsUpTo(blocks, txs, height) == {r \in blocks \cup txs : r[1] <= height}

\* C10 as stated: the insert and the pruning of a write with retention k > 0
\* are one transaction, so wherever the insert of the last write took effect
\* no stored block or tx row has a height <= blockheight - k.
C10_Stated ==
    (stKeep > 0 /\ stOutcome \in {"ok", "delete_failed"})
        => RowsUpTo(dbBlocks, dbTxs, stWritten.blockheight - stKeep) = {}

\* C10: write inserts the block row and the tx rows in one transaction and,
\* with retention k > 0, deletes the rows of height <= blockheight - k in a
\* second one. A failed insert leaves the tables as they were and no pruning
\* is tried; a failed pruning leaves the inserted rows and deletes nothing; a
\* successful write leaves the old rows and the inserted ones less exactly
\* those of height <= blockheight - k, and with k <= 0 deletes nothing.
C10_Write ==
    [][(stReadOf' = 0 /\ stOutcome' # "none") =>
        LET m == stWritten'
            blocks == dbBlocks \cup {<<m.blockheight, m.blocksize, m.time>>}
            txs == dbTxs \cup
                   {<<m.blockheight, txid>> \o get_attr_tuple(m.entries[txid]) :
                        txid \in DOMAIN m.entries}
            height_thresh == m.blockheight - stKeep
        IN /\ stOutcome' = "insert_failed" =>
                dbBlocks' = dbBlocks /\ dbTxs' = dbTxs
           /\ stOutcome' = "delete_failed" =>
                stKeep > 0 /\ dbBlocks' = blocks /\ dbTxs' = txs
           /\ (stOutcome' = "ok" /\ stKeep > 0) =>
                /\ dbBlocks' = {r \in blocks : r[1] > height_thresh}
                /\ dbTxs' = {r \in txs : r[1] > height_thresh}
           /\ (stOutcome' = "ok" /\ stKeep <= 0) =>
                dbBlocks' = blocks /\ dbTxs' = txs]_vars

\* a successful write of block 3 with retention 2 on a store that keeps block
\* 2 and its tx rows and holds nothing older
C10_Witness ==
    /\ stOutcome = "ok"
    /\ stKeep = 2
    /\ stWritten.blockheight = 3
    /\ {r[1] : r \in dbBlocks} = {2, 3}
    /\ {r[1] : r \in dbTxs} = {2, 3}

(***************************************************************************)
(* C11: get_capacity against the capacity the specification defines        *)
(***************************************************************************)
FiniteMinfeerates(pools) ==
    {pools[n].minfeerate : n \in {m \in DOMAIN pools : pools[m].minfeerate /= SimInf}}

\* the sum of hashrate * maxblocksize over the pools with minfeerate <= f
RECURSIVE CapacityAt(_, _, _)
CapacityAt(pools, names, f) ==
    IF names = {} THEN 0
    ELSE LET n == CHOOSE m \in names : TRUE
         IN (IF pools[n].minfeerate <= f
             THEN pools[n].hashrate * pools[n].maxblocksize ELSE 0)
            + CapacityAt(pools, names \ {n}, f)

\* the values test_caps asserts
RefCaps(pools) ==
    IF pools = ref_pools
    THEN [feerates |-> <<0, 1000, 10000, 20000>>,
          caps |-> <<0, 5000000, 7250000, 8250000>>]
    ELSE IF pools = dup_pools
    THEN [feerates |-> <<0, 1000, 10000, 20000>>,
          caps |-> <<0, 5600000, 7100000, 8100000>>]
    ELSE IF pools = inf_pools
    THEN [feerates |-> <<0, 1000, 10000>>, caps |-> <<0, 5000000, 7250000>>]
    ELSE IF pools = onlyinf_pools
    THEN [feerates |-> <<0>>, caps |-> <<0>>]
    ELSE IF pools = empty_pools
    THEN ValueError
    ELSE get_capacity(pools)

\* C11: get_capacity returns the feerates [0] followed by the distinct finite
\* minfeerates of the pools in increasing order, and at each of them the sum of
\* hashrate * maxblocksize * blockrate over the pools with minfeerate at or
\* below it: pools sharing a minfeerate make one step, pools with an infinite
\* minfeerate add nothing, the capacity never decreases with the feerate, and
\* an empty set of pools raises an error
C11_GetCapacity ==
    rtCaps /= Unset =>
        IF DOMAIN rtPools = {} THEN rtCaps = ValueError
        ELSE /\ rtCaps /= ValueError
             /\ rtCaps = RefCaps(rtPools)
             /\ Len(rtCaps.caps) = Len(rtCaps.feerates)
             /\ rtCaps.feerates[1] = 0
             /\ {rtCaps.feerates[i] : i \in 2..Len(rtCaps.feerates)}
                    = FiniteMinfeerates(rtPools)
             /\ \A i \in 1..(Len(rtCaps.feerates) - 1) :
                    rtCaps.feerates[i] < rtCaps.feerates[i + 1]
             /\ \A i \in 1..Len(rtCaps.feerates) :
                    rtCaps.caps[i] = CapacityAt(rtPools, DOMAIN rtPools, rtCaps.feerates[i])
             /\ NonDecreasing(rtCaps.caps)

\* the capacity of the four pools of test_caps of which two share a minfeerate
C11_Witness ==
    /\ rtCaps /= Unset
    /\ rtPools = dup_pools
    /\ Len(rtCaps.feerates) = 4
    /\ rtCaps.caps[2] = 5600000

(***************************************************************************)
(* C12: get_byterates against the cumulative byterate                      *)
(***************************************************************************)
\* txrate times the sizes of the sample transactions with feerate >= f, in
\* the units of get_byterates
RECURSIVE CumulativeByterate(_, _, _)
CumulativeByterate(txsample, txrate, f) ==
    IF txsample = <<>> THEN 0
    ELSE (IF Head(txsample).feerate >= f THEN txrate * Head(txsample).size ELSE 0)
         + CumulativeByterate(Tail(txsample), txrate, f)

\* C12: for strictly increasing feerates, get_byterates returns at index i
\* the cumulative byterate (txrate / n) * (sum of the sizes of the sample
\* transactions with feerate >= feerates[i]); the values never increase with
\* i, and the value at feerate 0 is the mean byterate txrate * (mean size)
C12_Stated ==
    rtByterates /= Unset =>
        /\ Len(rtByterates.byterates) = Len(rtFeerates)
        /\ \A i \in 1..Len(rtFeerates) :
               rtByterates.byterates[i]
                   = CumulativeByterate(rtSample, rtTxRate, rtFeerates[i])
        /\ \A i \in 1..(Len(rtFeerates) - 1) :
               rtByterates.byterates[i] >= rtByterates.byterates[i + 1]
        /\ rtFeerates[1] = 0 =>
               rtByterates.byterates[1] = CumulativeByterate(rtSample, rtTxRate, 0)

(***************************************************************************)
(* C13: the stable feerate of a Capacity and the Simul built on it         *)
(***************************************************************************)
\* the grid points with a capacity at which the byterate is within the
\* threshold (orEqual) or strictly below it
Qualifying(cap, thresh, orEqual) ==
    {i \in 1..Len(cap.feerates) :
        /\ cap.cap_lower[i] /= 0
        /\ \/ 10 * cap.tx_byterates[i] < thresh * cap.cap_lower[i]
           \/ orEqual /\ 10 * cap.tx_byterates[i] = thresh * cap.cap_lower[i]}

StableFeerateIs(orEqual) ==
    LET Q == Qualifying(rtCap, rtThresh, orEqual)
    IN /\ Q = {} => rtSimul.stablefeerate = None /\ rtSimul.pc = "Unstable"
       /\ Q /= {} => /\ rtSimul.stablefeerate = rtCap.feerates[SetMin(Q)]
                     /\ rtSimul.pc = "running" => rtSimul.feeratethresh >= rtSimul.stablefeerate
                     /\ rtSimul.pc = "Unstable" => rtSimul.feeratethresh < rtSimul.stablefeerate

\* C13 as stated: calc_stablefeerate returns the smallest feerate of the
\* capacity grid at which tx_byterate / lower capacity is below the threshold,
\* grid points with zero capacity never qualifying, and no stable feerate when
\* no grid point qualifies; the simulator refuses to run below the stable
\* feerate with an Unstable error
C13_Stated == rtSimul /= Unset => StableFeerateIs(FALSE)

\* C13: calc_stablefeerate returns the smallest feerate of the capacity grid
\* at which tx_byterate / lower capacity is at or below the threshold, grid
\* points with zero capacity never qualifying, and no stable feerate when no
\* grid point qualifies; the simulator refuses to run below the stable feerate
\* with an Unstable error
C13_StableFeerate == rtSimul /= Unset => StableFeerateIs(TRUE)

\* a Simul whose stable feerate is a grid point where the ratio equals the
\* threshold, after a lower grid point with a capacity failed it, and whose
\* run below that feerate was refused
C13_Witness ==
    /\ rtSimul /= Unset
    /\ rtSimul.pc = "Unstable"
    /\ rtSimul.stablefeerate /= None
    /\ \E i \in 2..Len(rtCap.feerates) :
          /\ rtCap.feerates[i] = rtSimul.stablefeerate
          /\ 10 * rtCap.tx_byterates[i] = rtThresh * rtCap.cap_lower[i]
          /\ rtCap.cap_lower[i - 1] /= 0

(***************************************************************************)
(* C14: the number of iterations of a statistics run                       *)
(***************************************************************************)
\* C14: a statistics run performs n iterations with miniters <= n <= maxiters:
\* it ends on reaching maxiters, and on exceeding maxtime only once miniters
\* iterations are done; the numiters it records is the number of iterations
\* performed
C14_Iterations ==
    /\ ssIters <= ssMaxiters
    /\ ssPc = "simulated" =>
          /\ ssWork.numiters = ssIters
          /\ ssMiniters <= ssWork.numiters
          /\ ssWork.numiters <= ssMaxiters
          /\ \/ ssWork.numiters = ssMaxiters
             \/ ssWork.timespent > ssMaxtime

\* a run that went on past maxtime until miniters were done and ended there,
\* short of maxiters
C14_Witness ==
    /\ ssPc = "simulated"
    /\ ssMiniters = 2
    /\ ssMaxiters = 3
    /\ ssWork.numiters = 2
    /\ ssIters = 2
    /\ ssWork.timespent > ssMaxtime

(***************************************************************************)
(* C15: what a worker still does once its stop flag is set                 *)
(***************************************************************************)
\* the step evaluates a stop check of the pools worker
PoAtCheckpoint ==
    /\ \/ poPc = "id_check" /\ poIdx <= Window /\ poIdx \notin poWork.blockmap
       \/ poPc = "est_pool" /\ poWork.blockmap /= {}
       \/ poPc = "est_check" /\ poIdx <= Window
    /\ <<poPc, poIdx>>' /= <<poPc, poIdx>>

\* the step evaluates a stop check of the steady-state worker
SsAtCheckpoint ==
    /\ ssPc \in {"txsource", "simulate", "simulated"}
    /\ <<ssPc, ssHeight, ssRealtime>>' /= <<ssPc, ssHeight, ssRealtime>>

\* every checkpoint reached with the flag set unwinds, and the unwinding ends
\* run with the published value as it was; what is published is complete
Unwinds ==
    /\ poStop /\ PoAtCheckpoint => poPc' = "StopIteration"
    /\ ssStop /\ SsAtCheckpoint => ssPc' = "StopIteration"
    /\ poPc = "StopIteration" /\ poPc' /= poPc => poPc' = "stopped" /\ poPe' = poPe
    /\ ssPc = "StopIteration" /\ ssPc' /= ssPc => ssPc' = "stopped" /\ ssStats' = ssStats
    /\ poPe' /= poPe => poPc = "publish" /\ poPe'.complete
    /\ ssStats' /= ssStats => ssPc = "publish" /\ ssStats'.numiters /= None

C18_Stated ==
    [][poPc = "sleep" /\ poPc' = "getblockcount" =>
           poFill /\ poSince >= UpdatePeriod]_vars

(***************************************************************************)
(* C19: the steady-state worker and the pools estimates                    *)
(***************************************************************************)
\* the steady-state worker is in simulate with the estimate of version k
SimulatesWith(k) == ssPc = "simulate" /\ ssWork.pools = k

NeverBeforeAnEstimate ==
    ssPc \in {"simulate", "simulated", "publish"} => ssWork.pools /= 0 /\ poPe.ver /= 0

PrTarget ==
    IF prLock = "process_blocks"
    THEN [predicts |-> prBefore.value.predicts \ prBefore.txs,
          scores |-> [t \in PrTxids |->
                         prBefore.value.scores[t]
                         + IF t \in prBefore.txs \cap prBefore.value.predicts
                           THEN 1 ELSE 0]]
    ELSE [predicts |-> prBefore.txs, scores |-> prBefore.value.scores]

\* C16: every published snapshot is read and replaced only under its lock and
\* a writer swaps in a value built on a private copy: under any interleaving a
\* reader of the prediction obtains the complete previous value or the
\* complete new value, never a partially updated one
C16_Stated ==
    [][prRead' /= prRead =>
           \/ prLock = "free"
           \/ prRead' = prBefore.value
           \/ prRead' = PrTarget]_vars

(***************************************************************************)
(* C17: the state machine of a tracked transaction                         *)
(***************************************************************************)
\* C17: under any interleaving of the update_predicts threads and the block
\* worker's process_blocks each transaction goes Untracked -> Tracked ->
\* Confirmed or Evicted: a confirmed transaction is scored exactly once and
\* then removed, one dropped from the mempool without confirmation is removed
\* without being scored, and none leaves Confirmed or Evicted again
C17_Stated ==
    [][\A t \in PrTxids :
          /\ prLife[t] \in {"Confirmed", "Evicted"} => prLife'[t] = prLife[t]
          /\ prLife[t] = "Untracked" => prLife'[t] \in {"Untracked", "Tracked"}
          /\ prLife[t] = "Tracked" /\ prLife'[t] = "Confirmed" =>
                 prNode[t] = "confirmed" /\ prScores'[t] = 1
          /\ prLife[t] = "Tracked" /\ prLife'[t] = "Evicted" =>
                 prNode[t] = "dropped" /\ prScores'[t] = 0
          /\ prScores'[t] <= 1
          /\ prLife'[t] = "Tracked" <=> t \in prPredicts']_vars

(***************************************************************************)
(* C20: the classes of the blocks after estimate_params                    *)
(***************************************************************************)
EpSet(s) == {s[i] : i \in 1..Len(s)}

\* the blocks of the pool that the history has
EpRecorded == {i \in 1..Len(epBlocks) : epBlocks[i].found}

EpMaxSize == IF EpRecorded = {} THEN 0
             ELSE CHOOSE m \in {epBlocks[i].size : i \in EpRecorded} :
                      \A i \in EpRecorded : epBlocks[i].size <= m

\* the fallback of estimate_params: no block has contributed and the smallest
\* of the deferred blocks is taken
EpFellBack ==
    /\ epDeferred /= <<>>
    /\ \A i \in EpSet(epFeelimited) : ~epBlocks[i].hastxs
    /\ epTxs \subseteq {min_bysize(epBlocks, epDeferred, Len(epDeferred))}

\* C20: after estimate_params maxblocksize is the maximum size over the
\* recorded blocks of the pool; a recorded block is fee-limited exactly when
\* that maximum less its size is above its average transaction size, and
\* size-limited otherwise; every recorded block is in exactly one of the two
\* classes and only fee-limited blocks contribute transactions (but for the
\* fallback to the smallest block, when no fee-limited block contributes)
C20_Stated ==
    epPc = "done" =>
        /\ epMaxblocksize = EpMaxSize
        /\ \A i \in EpRecorded :
              /\ i \in EpSet(epFeelimited) <=>
                     EpMaxSize - epBlocks[i].size > epBlocks[i].avgtxsize
              /\ i \in EpSet(epSizelimited) <=>
                     ~(EpMaxSize - epBlocks[i].size > epBlocks[i].avgtxsize)
        /\ EpSet(epFeelimited) \cap EpSet(epSizelimited) = {}
        /\ EpSet(epFeelimited) \cup EpSet(epSizelimited) = EpRecorded
        /\ Len(epFeelimited) + Len(epSizelimited) = Cardinality(EpRecorded)
        /\ epTxs \subseteq EpSet(epFeelimited) \/ EpFellBack

(***************************************************************************)
(* C21: the block the fallback of estimate_params takes                    *)
(***************************************************************************)
\* the size-limited blocks of the smallest size
EpSmallestSizelimited ==
    {i \in EpSet(epSizelimited) :
        \A j \in EpSet(epSizelimited) : epBlocks[i].size <= epBlocks[j].size}

\* the transactions tx_preprocess leaves of block i, as the set epTxs holds
EpTxsOf(i) == IF epBlocks[i].hastxs THEN {i} ELSE {}

\* C21: if a pool has no fee-limited block, the observations passed to the
\* stranding-feerate estimator are exactly those of the pool's smallest
\* size-limited block (high-priority and dependency-violating transactions
\* removed); if a fee-limited block has contributed, no transaction of a
\* size-limited block is used
C21_Stated ==
    epPc = "done" =>
        /\ EpSet(epFeelimited) = {} /\ EpSet(epSizelimited) /= {} =>
               \E i \in EpSmallestSizelimited : epTxs = EpTxsOf(i)
        /\ (\E i \in EpSet(epFeelimited) : epBlocks[i].hastxs) =>
               epTxs \cap EpSet(epSizelimited) = {}

(***************************************************************************)
(* C22: id_blocks names a block after the first registry entry that        *)
(* matches it, after its first valid address, or not at all                *)
(***************************************************************************)
\* the valid addresses of the coinbase fetched last
IbValidAddrs == SelectSeq(ibCoinbase.addrs, LAMBDA a : a /= NoAddr)

\* the registry entries, in the order id_blocks meets them, that match the
\* coinbase fetched last
IbMatches ==
    SelectSeq(ibAddrOrder, LAMBDA it : \E k \in 1..Len(IbValidAddrs) : IbValidAddrs[k] = it.key)
    \o SelectSeq(ibTagOrder, LAMBDA it : it.key \in ibCoinbase.tag)

\* C22: the block fetched last is mapped to the pool of the first registry entry
\* that matches its payout address or coinbase tag; when nothing matches it is
\* mapped to the unknown-pool name made of the first valid address's prefix and
\* the marker; when there is no valid address either it is not in block_map
C22_FirstMatchKept ==
    ibCoinbase.height /= 0 =>
        LET name == ibBlockmap[ibCoinbase.height]
        IN  /\ IbMatches /= <<>> => name = IbMatches[1].name
            /\ IbMatches = <<>> /\ IbValidAddrs /= <<>> =>
                   name = IbName(FALSE, IbValidAddrs[1].head)
            /\ IbMatches = <<>> /\ IbValidAddrs = <<>> =>
                   ibCoinbase.height \notin IbKeys(ibBlockmap)

\* a block that two different pools match has been fetched and has its name
C22_Conflict ==
    /\ ibCoinbase.height /= 0
    /\ \E i, j \in 1..Len(IbMatches) : IbMatches[i].name /= IbMatches[j].name
    /\ ibCoinbase.height \in IbKeys(ibBlockmap)

(***************************************************************************)
(* C23: id_blocks keeps block_map inside the range and does not fetch what *)
(* it holds                                                                *)
(***************************************************************************)
\* id_blocks has returned and start has not been called again
IbIdentified == ibPc \in {"estimate_pools", "interval", "done"}

\* C23: once id_blocks has returned every key of block_map lies in [a, b) of the
\* call, and a height that was in block_map when the call began was not fetched
\* again and, where it is still a key, has the name it had
C23_CachedAndCollected ==
    /\ IbIdentified =>
           \A h \in IbKeys(ibBlockmap) : ibRange[1] <= h /\ h < ibRange[2]
    /\ ibPc /= "new" =>
           \A h \in IbKeys(ibBefore) :
               /\ h \notin ibFetched
               /\ h \in IbKeys(ibBlockmap) => ibBlockmap[h] = ibBefore[h]
               /\ ibRange[1] <= h /\ h < ibRange[2] => ibBlockmap[h] = ibBefore[h]

\* a call has returned that began with one height to keep and one height to
\* collect in block_map, and that fetched a block
C23_SecondCall ==
    /\ ibPc = "estimate_pools"
    /\ ibFetched /= {}
    /\ \E h \in IbKeys(ibBefore) : h \in IbKeys(ibBlockmap)
    /\ \E h \in IbKeys(ibBefore) : h \notin IbKeys(ibBlockmap)

(***************************************************************************)
(* C24: the proportions estimate_pools gives                               *)
(***************************************************************************)
RECURSIVE IbSumNum(_, _)
IbSumNum(pools, names) ==
    IF names = {} THEN 0
    ELSE LET n == CHOOSE x \in names : TRUE
         IN  pools[n].num + IbSumNum(pools, names \ {n})

\* estimate_pools has returned
IbEstimated == ibPc \in {"interval", "done"}

\* each pool's proportion is its number of heights over the number of mapped
\* heights and lies in (0, 1]
IbProportions ==
    /\ DOMAIN ibPools = {ibBlockmap[h] : h \in IbKeys(ibBlockmap)}
    /\ \A n \in DOMAIN ibPools :
        /\ ibPools[n].num = Cardinality({h \in IbKeys(ibBlockmap) : ibBlockmap[h] = n})
        /\ ibPools[n].den = Cardinality(IbKeys(ibBlockmap))
        /\ 0 < ibPools[n].num /\ ibPools[n].num <= ibPools[n].den

\* the proportions sum to 1: the counts sum to the common denominator
IbSumIsOne ==
    /\ \E n \in DOMAIN ibPools : IbSumNum(ibPools, DOMAIN ibPools) = ibPools[n].den
    /\ \A n \in DOMAIN ibPools : ibPools[n].den > 0

C25_Stated == ibPc = "done" => IbKeys(ibBlockmap) /= {}

(***************************************************************************)
(* C26: no valid transaction gives a sentinel, not an exception            *)
(***************************************************************************)
\* C26: estimate_params never raises for want of transactions; when it ends with
\* no transaction left by the filter, stats has sfr = bias = mean = std = inf
\* and minfeerate is inf; MemBlock.calc_stranding_feerate on a block whose
\* entries leave no valid transaction returns None
C26_Sentinel ==
    /\ epPc /= "raised"
    /\ epPc = "done" /\ epTxs = {} =>
           /\ epStats.sfr = Inf /\ epStats.bias = Inf
           /\ epStats.mean = Inf /\ epStats.std = Inf
           /\ epMinfeerate = Inf
    /\ epBlockSfr.called /\ epBlockSfr.block.entries /\ ~epBlockSfr.block.hastxs =>
           epBlockSfr.result = "None"

\* a pool has been estimated whose blocks were found, one of them fee-limited,
\* and left no transaction
C26_NoValid ==
    /\ epPc = "done" /\ epTxs = {}
    /\ \E i \in 1..Len(epBlocks) : epBlocks[i].found
    /\ epFeelimited /= <<>>

(***************************************************************************)
(* C27: what an emitter with a feerate threshold inserts                   *)
(***************************************************************************)
EmRange(s) == {s[i] : i \in 1..Len(s)}

\* C27: an emitter inserts no transaction below its threshold and every drawn
\* transaction at its threshold; with an infinite threshold, with a zero rate or
\* called with zero intervals only it has inserted nothing; what it inserts
\* comes from the sample
C27_Threshold ==
    /\ \A tx \in EmRange(emMempool) : tx.feerate >= emThresh /\ tx \in EmRange(emSample)
    /\ \A tx \in EmRange(emDrawn) : tx.feerate = emThresh => tx \in EmRange(emMempool)
    /\ emThresh = SimInf \/ emTxRate = 0 \/ (\A i \in 1..Len(emCalls) : emCalls[i] = 0) =>
           emMempool = <<>>

\* one call drew a transaction at the threshold, which is in the mempool, and
\* one below it, which is not
C27_AtThreshold ==
    /\ \E tx \in EmRange(emDrawn) : tx.feerate = emThresh /\ tx \in EmRange(emMempool)
    /\ \E tx \in EmRange(emDrawn) : tx.feerate < emThresh /\ tx \notin EmRange(emMempool)

(***************************************************************************)
(* C28: a source with an empty sample                                      *)
(***************************************************************************)
\* C28 as stated: get_byterates of a source with an empty sample and a positive
\* rate ends in an error
C28_Stated ==
    rtSample = <<>> /\ rtTxRate > 0 /\ rtByterates /= Unset =>
        "byterates" \notin DOMAIN rtByterates

(***************************************************************************)
(* C29: an initial mempool with a hanging dependency                       *)
(***************************************************************************)
\* some entry depends on a txid that is not a key of the mempool
SimHanging(entries) == \E t \in DOMAIN entries : ~(entries[t].depends \subseteq DOMAIN entries)

\* C29: a run whose initial mempool has a hanging dependency ends in an error
\* with no block produced, and no run is under way on such a mempool; the chain
\* of test_D, once its missing ancestor is there, gives a first block with
\* sfr 1002 whose highest feerate is 9999
C29_HangingRejected ==
    /\ simPc = "error" => SimHanging(simEntries) /\ simHeight = 0 /\ simBlock = NoBlock
    /\ simPc = "running" => \A t \in DOMAIN simDeps : simDeps[t] \subseteq DOMAIN simDeps
    /\ simMode = "TD" /\ simPc = "running" => ChainLen \in DOMAIN simDeps
    /\ simMode = "TD" /\ simHeight = 1 =>
           /\ simBlock.sfr = 1002
           /\ SetMax({simPrev[simBlock.txs[i]].feerate : i \in 1..Len(simBlock.txs)}) = 9999

\* the chain of test_D, refused at first, has been given its ancestor and has
\* produced a block
C29_ChainSimulated ==
    /\ simMode = "TD" /\ simHeight = 1
    /\ ChainLen \in DOMAIN simDeps
    /\ Len(simBlock.txs) > 1

(***************************************************************************)
(* C30: scenario S6 of the stranding feerate                               *)
(***************************************************************************)
\* calcMinFeeRateSingle has returned for the block
S6Result(entries) == sfrPc = "single" /\ entriesIn = entries

\* C30 as stated: the stranding feerate of S6 is 8000 and is still 8000 when the
\* in-block observation at 8000 is an out-of-block one instead
C30_Stated ==
    /\ S6Result(S6Entries) => minFeeRate = 8000
    /\ S6Result(S6Flipped) => minFeeRate = 8000

\* C30: the stranding feerate of S6 is 8000; with the observation at 8000 out of
\* the block it is 9000; it stays 8000 when an out-of-block observation at 8000
\* stands beside the in-block one, k being 2 at 9000 and at 8000; and when the
\* observation at 8000 changes places with the out-of-block one at 7000 the tie
\* of 9000 and 7000 gives 7000
C30_ScenarioS6 ==
    /\ S6Result(S6Entries) => minFeeRate = 8000
    /\ S6Result(S6Flipped) => minFeeRate = 9000
    /\ S6Result(S6Tied) => minFeeRate = 8000
    /\ S6Result(S6Exchanged(4)) => minFeeRate = 7000
    /\ \A j \in 5..7 : S6Result(S6Exchanged(j)) => minFeeRate = 9000

\* the block with the tie at 9000 and 8000 has its stranding feerate
C30_Tie == S6Result(S6Tied) /\ minFeeRate = 8000

(***************************************************************************)
(* C31: a WaitFn is monotone non-increasing and piecewise linear, None     *)
(* below its grid and flat above it, and inv inverts it on the grid        *)
(***************************************************************************)
WfGrid(fn) == 1..Len(fn.feerates)

WfOnGrid(fn, x) == \E i \in WfGrid(fn) : x = Frac(fn.feerates[i], 1)

\* evaluated below the lowest grid feerate a WaitFn returns None, at or above
\* the highest the last grid wait, between two grid points the value on the
\* line through them, and never more than at a lower feerate
C31_Call ==
    (rtWaitCall /= Unset /\ rtWaitCall.op = "call") =>
        LET fn == rtWaitFn
            n == Len(fn.feerates)
            x == rtWaitCall.arg.num
            y == rtWaitCall.result
        IN /\ x < fn.feerates[1] <=> y = NoneFrac
           /\ x >= fn.feerates[n] => y = Frac(fn.waits[n], 1)
           /\ \A i \in 1..(n - 1) :
                 (fn.feerates[i] <= x /\ x < fn.feerates[i + 1]) =>
                     (y.num - fn.waits[i] * y.den) * (fn.feerates[i + 1] - fn.feerates[i])
                         = (x - fn.feerates[i]) * (fn.waits[i + 1] - fn.waits[i]) * y.den
           /\ \A g \in WfArgs :
                 (fn.feerates[1] <= g /\ g <= x) =>
                     FracLeq(y, WaitFn_call(fn, Frac(g, 1)))

\* inv returns None for a wait below the smallest grid wait and a feerate
\* for the smallest grid wait and every wait above it
C31_Inv ==
    (rtWaitCall /= Unset /\ rtWaitCall.op = "inv") =>
        LET fn == rtWaitFn
            minwait == fn.waits[Len(fn.waits)]
        IN rtWaitCall.arg.num < minwait <=> rtWaitCall.result = NoneFrac

\* C31 as stated: the above, and inv(fn(f)) = f for every grid feerate f
C31_Stated ==
    /\ C31_Call
    /\ C31_Inv
    /\ (rtWaitCall /= Unset /\ rtWaitCall.op = "inv_of_call"
            /\ WfOnGrid(rtWaitFn, rtWaitCall.arg))
         => FracEq(rtWaitCall.result, rtWaitCall.arg)

\* the lowest grid feerate with the wait of grid point i
WfLowestWithWait(fn, i) ==
    fn.feerates[SetMin({j \in WfGrid(fn) : fn.waits[j] = fn.waits[i]})]

\* C31, amended: a WaitFn is monotone non-increasing and piecewise linear,
\* None below its grid and flat above it; inv is None below the smallest grid
\* wait and a feerate from it upwards; inv(fn(f)) of a grid feerate f is the
\* lowest grid feerate with the wait of f, which is f where no lower grid
\* feerate has the same wait
C31_Amended ==
    /\ C31_Call
    /\ C31_Inv
    /\ (rtWaitCall /= Unset /\ rtWaitCall.op = "inv_of_call") =>
          \A i \in WfGrid(rtWaitFn) :
             rtWaitCall.arg = Frac(rtWaitFn.feerates[i], 1) =>
                FracEq(rtWaitCall.result, Frac(WfLowestWithWait(rtWaitFn, i), 1))

\* inv(fn(f)) of a grid feerate f that shares its wait with a lower one
C31_TiedWaits ==
    /\ rtWaitCall /= Unset
    /\ rtWaitCall.op = "inv_of_call"
    /\ WfOnGrid(rtWaitFn, rtWaitCall.arg)
    /\ rtWaitCall.result /= NoneFrac
    /\ ~FracEq(rtWaitCall.result, rtWaitCall.arg)

(***************************************************************************)
(* C32: the list get_feeclasses returns                                    *)
(***************************************************************************)
FcReturned == rtFcPc = "returned"

StrictlyIncreasing(s) == \A i \in 1..(Len(s) - 1) : s[i] < s[i + 1]

\* C32 as stated: get_feeclasses returns a strictly increasing list in which
\* every class is a multiple of quantize and at least the stable feerate
C32_Stated ==
    FcReturned =>
        /\ StrictlyIncreasing(rtFeeclasses)
        /\ \A i \in 1..Len(rtFeeclasses) :
              /\ rtFeeclasses[i] % quantize = 0
              /\ rtFeeclasses[i] >= rtSimul.stablefeerate

\* C32, amended: get_feeclasses returns a strictly increasing list of classes
\* that are all at least the stable feerate; the rounded percentile classes
\* are multiples of quantize and are in the list when they are at least the
\* stable feerate, and every other class lies strictly between two of them
C32_Amended ==
    FcReturned =>
        LET rounded == ToSet(fc_percentiles(rtCap))
        IN /\ StrictlyIncreasing(rtFeeclasses)
           /\ \A i \in 1..Len(rtFeeclasses) :
                 rtFeeclasses[i] >= rtSimul.stablefeerate
           /\ \A c \in rounded :
                 /\ c % quantize = 0
                 /\ c >= rtSimul.stablefeerate => c \in ToSet(rtFeeclasses)
           /\ \A c \in ToSet(rtFeeclasses) \ rounded :
                 SetMin(rounded) < c /\ c < SetMax(rounded)

\* a returned list with a class the bisection put off the quantize grid
C32_OffGrid ==
    /\ FcReturned
    /\ \E i \in 1..Len(rtFeeclasses) : rtFeeclasses[i] % quantize /= 0

(***************************************************************************)
(* C35: the bisection loop of get_feeclasses ends, and what holds then     *)
(***************************************************************************)
\* C35: when the loop has ended, every adjacent pair of classes is at most
\* 1 sat/kB apart or differs in byterate by no more than 10% of the total
\* byterate
C35_Stated ==
    FcReturned =>
        \A i \in 1..(Len(rtFeeclasses) - 1) :
            \/ rtFeeclasses[i + 1] - rtFeeclasses[i] <= 1
            \/ 10 * (CumulativeByterate(rtSample, rtTxRate, rtFeeclasses[i])
                      - CumulativeByterate(rtSample, rtTxRate, rtFeeclasses[i + 1]))
                  <= CumulativeByterate(rtSample, rtTxRate, 0)

\* the loop ends for every sample and capacity
C35_Terminates == <>(rtFcPc \in {"returned", "TypeError"})

\* what the loop itself compares when it ends: the values get_byterates
\* returned for the classes, next to each other
C35_LoopExit ==
    [][(rtFcPc = "loop" /\ rtFcPc' = "returned") =>
          LET byterates == get_byterates(rtSample, rtTxRate, rtFeeclasses)
          IN \A i \in 1..(Len(rtFeeclasses) - 1) :
                \/ rtFeeclasses[i + 1] - rtFeeclasses[i] <= 1
                \/ 10 * (byterates[i] - byterates[i + 1]) <= byterates[1]]_vars


\* a pass that does not end the loop adds a class and keeps the lowest and
\* the highest class: the passes are bounded by the width of the list
C35_Progress ==
    [][(rtFcPc = "loop" /\ rtFcPc' = "loop") =>
          /\ Len(rtFeeclasses') > Len(rtFeeclasses)
          /\ StrictlyIncreasing(rtFeeclasses')
          /\ rtFeeclasses'[1] = rtFeeclasses[1]
          /\ rtFeeclasses'[Len(rtFeeclasses')] = rtFeeclasses[Len(rtFeeclasses)]]_vars

(***************************************************************************)
(* C33: the sfr of the blocks of the deterministic simulator tests         *)
(***************************************************************************)
SimTests == {"S3", "S4", "TC", "TD"}

\* C33: in test_A to test_D a block that left an eligible candidate behind
\* reports the lowest included feerate + 1 and a block that left none reports
\* its pool's min_feerate; the four blocks of test_D report 1002, 10001,
\* 20000 and 1000, the block of test_C 1001
C33_TestSfr ==
    (simMode \in SimTests /\ simHeight > 0) =>
        /\ LeftEligible # {} =>
              /\ simBlock.sizeltd
              /\ simBlock.sfr = MinIncludedFeerate(simPrev, simBlock.txs) + 1
        /\ LeftEligible = {} => simBlock.sfr = BlockPool.minfeerate
        /\ simMode = "TD" => simBlock.sfr = <<1002, 10001, 20000, 1000>>[simHeight]
        /\ simMode = "TC" /\ simHeight = 1 => simBlock.sfr = 1001

\* test_D after its fourth block: every entry mined, the last block not
\* short of space
C33_FourBlocks ==
    /\ simMode = "TD"
    /\ simHeight = TestDBlocks
    /\ DOMAIN simEntries = {}
    /\ ~simBlock.sizeltd
    /\ simBlock.txs # <<>>

(***************************************************************************)
(* C34: the mempool of the simulator across blocks                         *)
(***************************************************************************)
\* the transactions that were in the mempool at the start or arrived since
SimArrived == DOMAIN simDeps

\* the transactions the blocks so far included
SimMined == simDone \cup BlockTxs

\* C34: no transaction is in two blocks, and the mempool after a block is the
\* mempool before it with the arrivals of the interval and without the
\* transactions of the block: it holds every transaction that ever arrived
\* and was not mined, unchanged in feerate and size; with tx_rate = 0 its
\* count drops by the count of the block and is 0 once every entry is mined
C34_Conservation ==
    simHeight > 0 =>
        /\ BlockTxs \cap simDone = {}
        /\ Cardinality(BlockTxs) = Len(simBlock.txs)
        /\ BlockTxs \subseteq DOMAIN simPrev
        /\ DOMAIN simEntries = DOMAIN simPrev \ BlockTxs
        /\ DOMAIN simEntries = SimArrived \ SimMined
        /\ \A t \in DOMAIN simEntries :
              /\ simEntries[t].feerate = simPrev[t].feerate
              /\ simEntries[t].size = simPrev[t].size
        /\ simTxRate = 0 =>
              /\ Cardinality(DOMAIN simEntries)
                    = Cardinality(DOMAIN simPrev) - Len(simBlock.txs)
              /\ DOMAIN simPrev = SimArrived \ simDone
              /\ SimMined = SimArrived => DOMAIN simEntries = {}

\* a second block, after a block interval in which a transaction arrived
C34_SecondBlock ==
    /\ simHeight = 2
    /\ simTxRate > 0
    /\ simDone # {}
    /\ simBlock.txs # <<>>
    /\ DOMAIN simEntries # {}
    /\ Cardinality(SimArrived) = MaxTx

(***************************************************************************)
(* C36: a poll with an error and what update makes of it                   *)
(***************************************************************************)
\* either response of the batch carries an error or has no result
PollBad(responses) == \E i \in 1..Len(responses) : responses[i] # "result"

\* the state a poll of the node as it is would give
PolledNow ==
    [height |-> nodeHeight,
     entries |-> [txid \in DOMAIN rawmempool |-> from_rawentry(rawmempool[txid])],
     time |-> nodeClock]

\* after a poll: it has raised exactly if a response was bad, and no tracked
\* state has a height or a mempool missing
C36_PollRaises ==
    /\ tkPc = "raised" <=> PollBad(tkPoll)
    /\ tkPc = "running" => tkPoll = <<"result", "result">> /\ tkState.height >= 0
    /\ \A i \in 1..Len(tkQueue) :
          /\ tkQueue[i][1].height >= 0
          /\ tkQueue[i][2].height > tkQueue[i][1].height

\* a step of update: after a bad poll the tracked state and the queue of the
\* block worker are as before; after a good one the tracked state is the
\* polled one and a call is put exactly if the polled height is higher
C36_UpdateStep ==
    TkUpdate =>
        IF PollBad(tkPoll')
        THEN tkPc' = "raised" /\ tkState' = tkState /\ tkQueue' = tkQueue
        ELSE /\ tkPc' = "running"
             /\ tkState' = PolledNow
             /\ IF nodeHeight > tkState.height
                THEN tkQueue' = Append(tkQueue, <<tkState, PolledNow>>)
                ELSE tkQueue' = tkQueue

\* C36: if either response of the batched poll carries an error or has no
\* result, poll_mempool raises, and update leaves the tracked state unchanged
\* and requests no block processing; on a successful poll block processing is
\* requested exactly when the polled height exceeds the tracked height, and
\* the tracked state is replaced by the polled one
C36_PollErrors == []C36_PollRaises /\ [][C36_UpdateStep]_vars

\* an update whose poll failed while a new block was waiting to be seen: the
\* state is the old one and nothing was put to the block worker
C36_FailedPoll ==
    /\ tkPc = "raised"
    /\ tkPoll[1] = "result" /\ tkPoll[2] # "result"
    /\ tkState # NoState
    /\ nodeHeight > tkState.height
    /\ tkQueue = <<>>

(***************************************************************************)
(* C37: the conflicts of a poll interval                                   *)
(***************************************************************************)
\* the transactions of the previous state that none of the blocks of the
\* interval included and the new state does not hold
GoneUnmined(prevstate, newstate) ==
    {txid \in DOMAIN prevstate.entries :
        /\ txid \notin DOMAIN newstate.entries
        /\ \A h \in (prevstate.height + 1)..newstate.height : txid \notin blocktxids(h)}

\* C37: a transaction of the previous state that none of the n blocks
\* included and that is absent from the new mempool is flagged isconflict in
\* the first MemBlock, as no other entry is, and is no entry of the MemBlocks
\* 2..n; no entry of a MemBlock is both inblock and isconflict, every entry
\* has inblock, isconflict and leadtime set, and leadtime is the time of the
\* snapshot less the time of the entry
C37_Conflicts ==
    tkJob # <<>> =>
        LET gone == GoneUnmined(tkJob[1], tkJob[2])
        IN /\ \A txid \in gone :
                 /\ txid \in DOMAIN tkMemblocks[1].entries
                 /\ \A i \in 2..Len(tkMemblocks) :
                       txid \notin DOMAIN tkMemblocks[i].entries
           /\ \A i \in 1..Len(tkMemblocks) :
                 \A txid \in DOMAIN tkMemblocks[i].entries :
                    LET entry == tkMemblocks[i].entries[txid]
                    IN /\ {"inblock", "isconflict", "leadtime"} \subseteq DOMAIN entry
                       /\ entry.inblock \in BOOLEAN
                       /\ entry.isconflict = (i = 1 /\ txid \in gone)
                       /\ ~(entry.inblock /\ entry.isconflict)
                       /\ entry.leadtime = tkJob[1].time - entry.time

\* two blocks between two polls and a transaction of the previous state that
\* neither included and the node dropped
C37_ConflictOfTwo ==
    /\ tkJob # <<>>
    /\ Len(tkMemblocks) = 2
    /\ GoneUnmined(tkJob[1], tkJob[2]) # {}
    /\ \E txid \in DOMAIN tkMemblocks[1].entries :
          tkMemblocks[1].entries[txid].isconflict /\ tkMemblocks[1].entries[txid].leadtime > 0

(***************************************************************************)
(* C38: what process_blocks does to the states it is given                 *)
(***************************************************************************)
SameState(a, b) ==
    /\ a.height = b.height
    /\ a.time = b.time
    /\ DOMAIN a.entries = DOMAIN b.entries
    /\ \A txid \in DOMAIN a.entries : a.entries[txid] = b.entries[txid]

\* the two states of the last call are, after it, as they were given to it
C38_ArgsAsGiven ==
    tkJob # <<>> =>
        /\ SameState(tkArgs[1], tkJob[1])
        /\ SameState(tkArgs[2], tkJob[2])

RowsOf(table, blockheight) == {r \in table : r[1] = blockheight}

C39_OneRowPerHeight ==
    \A r1 \in dbBlocks : \A r2 \in dbBlocks : r1[1] = r2[1] => r1 = r2

\* a step of the block worker: every MemBlock of the batch is written; the
\* write of a stored height fails and changes no row of that height, a write
\* that succeeds leaves its rows, one that fails leaves none
C39_BatchStep ==
    TkProcessBlocks =>
        /\ Len(tkWrites') = Len(tkMemblocks')
        /\ \A i \in 1..Len(tkMemblocks') :
              LET m == tkMemblocks'[i]
                  stored == RowsOf(dbBlocks, m.blockheight) # {}
              IN /\ stored =>
                      /\ tkWrites'[i] = "insert_failed"
                      /\ RowsOf(dbBlocks', m.blockheight) = RowsOf(dbBlocks, m.blockheight)
                      /\ RowsOf(dbTxs', m.blockheight) = RowsOf(dbTxs, m.blockheight)
                 /\ tkWrites'[i] = "ok" =>
                      /\ RowsOf(dbBlocks', m.blockheight) = {BlockRow(m)}
                      /\ RowsOf(dbTxs', m.blockheight) = TxRows(m)
                 /\ (~stored /\ tkWrites'[i] # "ok") =>
                      /\ RowsOf(dbBlocks', m.blockheight) = {}
                      /\ RowsOf(dbTxs', m.blockheight) = {}

C39_OneRecordPerHeight == []C39_OneRowPerHeight /\ [][C39_BatchStep]_vars

\* a batch of two whose first MemBlock, with entries of its own, has the
\* height already stored: the earlier rows are there, the second is written
C39_SecondWritten ==
    /\ Len(tkMemblocks) = 2
    /\ tkWrites = <<"insert_failed", "ok">>
    /\ tkMemblocks[1].blockheight = EarlierMemBlock.blockheight
    /\ DOMAIN tkMemblocks[1].entries # {}
    /\ RowsOf(dbBlocks, 1) = {BlockRow(EarlierMemBlock)}
    /\ RowsOf(dbTxs, 1) = TxRows(EarlierMemBlock)
    /\ BlockRow(tkMemblocks[2]) \in dbBlocks

(***************************************************************************)
(* C40: poisson_sample(l) returns a non-negative integer for every mean   *)
(* l >= 0 and returns 0 when l = 0, so that generate_txs over a           *)
(* zero-length interval or with a zero tx rate draws no transaction.      *)
(***************************************************************************)
\* the mean the last generate_txs call passed to poisson_sample
EmMean == emTxRate * emCalls[Len(emCalls)]

C40_Stated ==
    emK # <<>> =>
        /\ emK[1] >= 0
        /\ EmMean = 0 => emK[1] = 0 /\ emDrawn = <<>>

\* what holds of the call with mean 0: it draws nothing, range(k) being empty
\* for the k = -1 returned; and every other call gets a count
C40_DrawsNothing ==
    emK # <<>> =>
        /\ EmMean = 0 => emK[1] = 0 - 1 /\ emDrawn = <<>>
        /\ EmMean # 0 => emK[1] >= 0
        /\ emPc = "emitter" => Len(emDrawn) = IF emK[1] > 0 THEN emK[1] ELSE 0

\* a call over a zero-length interval of a source with a positive tx rate
C40_ZeroInterval ==
    /\ emK # <<>>
    /\ emTxRate > 0
    /\ emCalls[Len(emCalls)] = 0
    /\ emSample # <<>>

====
